---------------------------- MODULE Spec2Model ----------------------------
(***************************************************************************)
(* Damascus Pattern Playground: the pattern generator, the instruction     *)
(* formatter and the recipe save / load / share paths of the page          *)
(* component (src/unnamed/part_000).                                       *)
(*                                                                         *)
(* Numbers.  A JavaScript number is modelled in two ways, both exact:      *)
(*   - a value held in an operation record, in a recipe or printed into a  *)
(*     text is an integer count of thousandths (Unit = 1000 stands for     *)
(*     1.0), which covers every step the editors offer (1, 0.01, 0.005);   *)
(*   - a working coordinate of the generator is a rational <<n, d>> with   *)
(*     d > 0, kept in lowest terms.                                        *)
(* Math.sin and Math.sqrt have no exact rational value; they are computed  *)
(* by the rational approximations SinTurns and QSqrt below.                *)
(*                                                                         *)
(* Text.  A string that is printed, encoded or parsed is a sequence of     *)
(* one-character strings.                                                  *)
(***************************************************************************)
EXTENDS Integers, Sequences, FiniteSets, TLC

VARIABLES
    gLayers,    \* generatePattern: argument layers
    gOps,       \* generatePattern: argument ops
    gWidth,     \* generatePattern: argument width
    gHeight,    \* generatePattern: argument height
    gCanvas,    \* generatePattern: the canvas returned, NoCanvas before the call
    gPicked,    \* generatePattern: idx of line 99 for every pixel written
    fOps,       \* instructionsFromOps: argument ops
    fResult,    \* instructionsFromOps: the lines returned, once called
    aLayers,    \* DamascusPlayground: state layers
    aOps,       \* DamascusPlayground: state ops
    past,       \* DamascusPlayground: state past
    future,     \* DamascusPlayground: state future
    file,       \* the file pattern_recipe.json downloaded by saveRecipe
    clipboard,  \* the text written to the clipboard by copyShareURL
    last,       \* the handler that ran last
    patternCanvas,  \* DamascusPlayground: the value of useMemo at line 884
    crashed,    \* DamascusPlayground: a render has thrown, the page is gone
    frameRef,   \* DamascusPlayground: frameRef.current, 0 for null
    pending,    \* the callback updateOpSmooth gave to requestAnimationFrame
    pane,       \* the renderer mounted: "billet", "knife" or "none"
    hasCtx,     \* the renderer's effect got its canvas and its 2D context
    effect,     \* the number of the renderer's effect run last, 0 before any
    rafRef,     \* rafRef.current: a frame handle, 0 for null
    frames,     \* the browser's list of animation frame callbacks
    listeners,  \* the resize listeners registered on window, by effect run
    handles,    \* the frame handle requestAnimationFrame returned last
    canvasSize, \* canvas.width and canvas.height of the renderer's canvas
    kRaster,    \* KnifePane: prop patternCanvas
    kOffset,    \* KnifePane: prop uOffset
    kDrawn,     \* KnifePane: draw has run
    kBlits,     \* KnifePane: the source rectangles of the drawImage calls of draw
    bRaster,    \* BilletPane: prop patternCanvas
    bSize,      \* BilletPane: canvas.width and canvas.height when draw runs
    bAngle,     \* BilletPane: angleRef.current, in hundredths
    bBlits,     \* BilletPane: the drawImage calls of the last draw
    bFill       \* BilletPane: the fillRect of the front face of the last draw

genVars == <<gLayers, gOps, gWidth, gHeight, gCanvas, gPicked>>
fmtVars == <<fOps, fResult>>
appVars == <<aLayers, aOps, past, future, file, clipboard, last>>

pageVars == <<patternCanvas, crashed, frameRef, pending>>
paneVars == <<pane, hasCtx, effect, rafRef, frames, listeners, handles, canvasSize>>
knifeVars == <<kRaster, kOffset, kDrawn, kBlits>>
billetVars == <<bRaster, bSize, bAngle, bBlits, bFill>>
drawVars == <<knifeVars, billetVars>>
otherVars == <<pageVars, paneVars, drawVars>>

vars == <<genVars, fmtVars, appVars, otherVars>>

---------------------------------------------------------------------------
(* Bounds of the model *)

MaxStack == 4
MaxWidth == 3
MaxHeight == 4
MaxFmtOps == 2

\* the offsets given to the blade renderer: the multiples of 1 / OffsetSteps
\* from -MaxOffset to MaxOffset
MaxOffset == 2
OffsetSteps == 6

---------------------------------------------------------------------------
(* Numbers *)

Unit == 1000

\* Euclid's algorithm (a function, so that TLC evaluates its arguments first)
GcdOf[a \in Nat, b \in Nat] == IF b = 0 THEN a ELSE GcdOf[b, a % b]

Gcd(a, b) == GcdOf[a, b]

IAbs(n) == IF n < 0 THEN -n ELSE n

\* a number as a fraction <<numerator, denominator>>
Rational == Int \X Int

\* a number that is not finite: Infinity, -Infinity or NaN
NotFinite == <<0, 0>>

\* Math.pow(2, k) is Infinity from this k on (the numbers are IEEE doubles)
MaxExponent == 1024

\* the bits of the significand of a double
MantissaBits == 53

\* a finite double of magnitude in [2^e, 2^(e+1)) with e >= MantissaBits - 1:
\* it is a whole number, and adding a number below 1 to it leaves a whole
\* number of that size.  Only the exponent e > 0 is kept.
Huge(e) == <<e, 0>>
IsHuge(q) == q[2] = 0 /\ q[1] > 0

\* floor(log2(n / d)) for n > 0, d > 0
Log2Of[n \in Nat, d \in Nat] ==
    IF n >= d THEN (IF n < 2 * d THEN 0 ELSE 1 + Log2Of[n, 2 * d])
    ELSE Log2Of[2 * n, d] - 1

\* the exponent of a finite number other than 0
ExponentOf(q) == IF IsHuge(q) THEN q[1] ELSE Log2Of[IAbs(q[1]), q[2]]

QNorm[n \in Int, d \in Int] ==
    IF d = 0 THEN NotFinite
    ELSE LET s == IF d < 0 THEN -1 ELSE 1
             g == Gcd(IAbs(n), IAbs(d))
         IN  <<(s * n) \div g, (s * d) \div g>>

QInt[n \in Int] == <<n, 1>>
QOf[milli \in Int] == QNorm[milli, Unit]
QAdd[p \in Rational, q \in Rational] == QNorm[p[1] * q[2] + q[1] * p[2], p[2] * q[2]]
QNeg[p \in Rational] == <<-p[1], p[2]>>
QSub[p \in Rational, q \in Rational] == QAdd[p, QNeg[q]]
QMul[p \in Rational, q \in Rational] == QNorm[p[1] * q[1], p[2] * q[2]]
QDiv[p \in Rational, q \in Rational] == QNorm[p[1] * q[2], p[2] * q[1]]
QLess[p \in Rational, q \in Rational] == p[1] * q[2] < q[1] * p[2]
QMax[p \in Rational, q \in Rational] == IF QLess[p, q] THEN q ELSE p
QMin[p \in Rational, q \in Rational] == IF QLess[p, q] THEN p ELSE q
QAbs[p \in Rational] == <<IAbs(p[1]), p[2]>>
\* Math.floor; -1, the index of no element, stands for Math.floor(NaN)
QFloor[p \in Rational] == IF p[2] = 0 THEN -1 ELSE p[1] \div p[2]
\* truncation toward zero
QTrunc[p \in Rational] == IF p[1] < 0 THEN -((-p[1]) \div p[2]) ELSE p[1] \div p[2]
\* the JavaScript remainder  p % 1 : it keeps the sign of p
QRem1[p \in Rational] == QSub[p, QInt[QTrunc[p]]]

\* a fold that adds one layer set per fold instead of doubling
Pow2_Linear(k) == IF k <= 0 THEN 1 ELSE k + 1

RECURSIVE Pow2(_)
Pow2(k) == IF k <= 0 THEN 1 ELSE 2 * Pow2(k - 1)

\* the largest r in lo..hi with r * r <= n, by bisection
ISqrtIn[n \in Nat, lo \in Nat, hi \in Nat] ==
    IF lo >= hi THEN lo
    ELSE LET mid == (lo + hi + 1) \div 2
         IN  IF mid * mid <= n THEN ISqrtIn[n, mid, hi] ELSE ISqrtIn[n, lo, mid - 1]

ISqrt(n) == ISqrtIn[n, 0, IF n < 46340 THEN n ELSE 46340]

\* Math.sqrt of a rational >= 0, rounded down to thousandths
QSqrt[p \in Rational] ==
    LET a == (p[1] * Unit) \div p[2]
        r == (p[1] * Unit) % p[2]
    IN  QNorm[ISqrt((a * Unit) + ((r * Unit) \div p[2])), Unit]

\* Math.sin(2 * pi * t) for a rational number of turns t, by Bhaskara's
\* rational approximation  sin(2 pi s) ~ 32 s (1 - 2 s) / (5 - 8 s (1 - 2 s))
\* on a half turn 0 <= s <= 1/2 (exact at 0, 1/12, 1/4, 5/12 and 1/2 turn).
SinHalf[s \in Rational] ==
    LET w == QMul[s, QSub[QInt[1], QMul[QInt[2], s]]]
    IN  QDiv[QMul[QInt[32], w], QSub[QInt[5], QMul[QInt[8], w]]]

SinTurns[t \in Rational] ==
    LET f == QSub[t, QInt[QFloor[t]]]
    IN  IF QLess[<<1, 2>>, f] THEN QNeg[SinHalf[QSub[f, <<1, 2>>]]] ELSE SinHalf[f]

---------------------------------------------------------------------------
(* Types and materials *)

MaterialType ==
    {"1084", "15N20", "1095", "80CrV2", "52100", "5160", "PureNickel", "WroughtIron"}

\* the catalog in declaration order
MaterialOrder ==
    <<"1084", "15N20", "1095", "80CrV2", "52100", "5160", "PureNickel", "WroughtIron">>

\* etch in thousandths
MATERIAL_CATALOG ==
    [m \in MaterialType |->
        CASE m = "1084"        -> [name |-> "1084", etch |-> 150]
          [] m = "15N20"       -> [name |-> "15N20", etch |-> 850]
          [] m = "1095"        -> [name |-> "1095", etch |-> 120]
          [] m = "80CrV2"      -> [name |-> "80CrV2", etch |-> 180]
          [] m = "52100"       -> [name |-> "52100", etch |-> 200]
          [] m = "5160"        -> [name |-> "5160", etch |-> 220]
          [] m = "PureNickel"  -> [name |-> "Pure Nickel", etch |-> 950]
          [] m = "WroughtIron" -> [name |-> "Wrought Iron", etch |-> 350]]

MATERIALS == MATERIAL_CATALOG

---------------------------------------------------------------------------
(* Pattern generator *)

NoCanvas == [width |-> 0, height |-> 0, data |-> <<>>, none |-> TRUE]

\* ctx.fillStyle = '#111' : the colour #111111, opaque
BackgroundPixel == <<17, 17, 17, 255>>

\* one operation applied to the working coordinates <<uu, vv>> (lines 71-94)
\* vv that is Infinity or NaN stays so under every operation, and is NaN after
\* line 97; a huge vv changes under a fold only
ApplyOp(op, c, repeats) ==
    LET uu == c[1]
        vv == c[2]
    IN  IF vv = NotFinite THEN c
        ELSE IF IsHuge(vv) /\ op.kind # "fold" THEN c
        ELSE
        CASE op.kind = "twist" ->
               <<uu, QAdd[vv, QDiv[QMul[SinTurns[QMul[uu, QOf[op.turns]]], <<1, 2>>],
                                   QInt[IF repeats > 1 THEN repeats ELSE 1]]]>>
          [] op.kind = "ladder" ->
               LET t == QRem1[QDiv[uu, QMax[<<1, 10000>>, QOf[op.spacing]]]]
                   tri == QSub[QInt[1], QMul[QAbs[QSub[<<1, 2>>, t]], QInt[2]]]
               IN  <<uu, QSub[vv, QMul[QMul[tri, <<1, 4>>], QOf[op.depth]]]>>
          [] op.kind = "raindrops" ->
               LET sp == QOf[op.spacing]
                   cx == QFloor[QDiv[uu, QMax[<<1, 10000>>, sp]]]
                   cy == QFloor[QDiv[vv, QMax[<<1, 10000>>, sp]]]
                   dx == QSub[QSub[uu, QMul[QInt[cx], sp]], QMul[sp, <<1, 2>>]]
                   dy == QSub[QSub[vv, QMul[QInt[cy], sp]], QMul[sp, <<1, 2>>]]
                   d == QSqrt[QAdd[QMul[dx, dx], QMul[dy, dy]]]
                   influence == QMax[QInt[0],
                                     QSub[QInt[1],
                                          QDiv[d, QMax[<<1, 10000>>, QOf[op.radius]]]]]
               IN  <<uu, QSub[vv, QMul[influence, <<15, 100>>]]>>
          [] op.kind = "wfolds" ->
               LET w == QOf[op.folds]
                   saw == QSub[QRem1[QMul[uu, w]], <<1, 2>>]
               IN  <<uu, QAbs[QAdd[vv, QMul[saw, <<1, 2>>]]]>>
          [] op.kind = "fold" ->
               LET k == QFloor[QOf[op.times]]
               IN  IF k >= MaxExponent THEN <<uu, NotFinite>>
                   ELSE IF k <= 0 \/ vv[1] = 0 THEN c
                   ELSE IF ExponentOf(vv) + k >= MaxExponent THEN <<uu, NotFinite>>
                   ELSE IF IsHuge(vv) \/ ExponentOf(vv) + k >= MantissaBits - 1
                        THEN <<uu, Huge(ExponentOf(vv) + k)>>
                   ELSE <<uu, QMul[vv, QInt[Pow2(k)]]>>
          [] op.kind = "stretch" ->
               <<QMul[uu, QOf[op.factor]], vv>>
          [] OTHER -> c

\* the loop of lines 70-95 with a case for addSheets that doubles vv, as if
\* the record of added sheets stacked the billet once more
RECURSIVE ApplyOps_SheetsCounted(_, _, _)
ApplyOps_SheetsCounted(ops, c, repeats) ==
    IF ops = <<>> THEN c
    ELSE ApplyOps_SheetsCounted(
             Tail(ops),
             [w \in {c} |-> IF Head(ops).kind = "addSheets" /\ w[2] # NotFinite
                            THEN <<w[1], QMul[w[2], QInt[2]]>>
                            ELSE ApplyOp(Head(ops), w, repeats)][c],
             repeats)

\* the loop of lines 70-95 run from the last operation to the first
RECURSIVE ApplyOps_Backwards(_, _, _)
ApplyOps_Backwards(ops, c, repeats) ==
    IF ops = <<>> THEN c
    ELSE ApplyOp(Head(ops), ApplyOps_Backwards(Tail(ops), c, repeats), repeats)

\* for (const op of ops) ... (lines 70-95)
\* each iteration works on the values uu, vv left by the one before it
RECURSIVE ApplyOps(_, _, _)
ApplyOps(ops, c, repeats) ==
    IF ops = <<>> THEN c
    ELSE ApplyOps(Tail(ops), [w \in {c} |-> ApplyOp(Head(ops), w, repeats)][c], repeats)

\* vv = ((vv % 1) + 1) % 1 (line 97)
Wrap01[vv \in Rational] ==
    IF vv = NotFinite THEN NotFinite
    ELSE IF IsHuge(vv) THEN QInt[0]
    ELSE QRem1[QAdd[QRem1[vv], QInt[1]]]

\* the working vv of pixel (x, y) after all operations and the wrap (lines 65-97)
WrappedV(ops, x, y, width, height, repeats) ==
    Wrap01[ApplyOps(ops, <<QNorm[x, width], QNorm[y, height]>>, repeats)[2]]

\* the stack coordinate taken along the length: v = x / width
LayerIndex_AlongLength(layers, ops, x, y, width, height) ==
    QFloor[QMul[WrappedV(ops, y, x, height, width, Len(layers)), QInt[Len(layers)]]]

\* idx of line 99
LayerIndex(layers, ops, x, y, width, height) ==
    QFloor[QMul[WrappedV(ops, x, y, width, height, Len(layers)), QInt[Len(layers)]]]

\* a number stored into a Uint8ClampedArray: clamped to 0..255 and rounded to
\* the nearest integer, a tie to the even one
ToUint8Clamped[q \in Rational] ==
    LET c == QMax[QInt[0], QMin[QInt[255], q]]
        f == QFloor[c]
        r == QSub[c, QInt[f]]
    IN  IF QLess[r, <<1, 2>>] THEN f
        ELSE IF QLess[<<1, 2>>, r] THEN f + 1
        ELSE IF f % 2 = 0 THEN f ELSE f + 1

\* the clamped etch stored without the scaling by 255 of line 101
GrayOf_Unscaled(mat) ==
    ToUint8Clamped[QMax[QInt[0], QMin[QInt[1], QOf[MATERIALS[mat].etch]]]]

\* s of line 101 as stored at lines 103-105
GrayOf(mat) ==
    ToUint8Clamped[QMul[QMax[QInt[0], QMin[QInt[1], QOf[MATERIALS[mat].etch]]], QInt[255]]]

\* the idx chosen for every pixel, by offset y * width + x
PickedIndices(layers, ops, width, height) ==
    [p \in 0..(width * height - 1) |->
        LayerIndex(layers, ops, p % width, p \div width, width, height)]

\* the RGBA bytes of the image written at lines 102-106, from the chosen indices
ImageData(layers, picked, width, height) ==
    LET shade == [k \in 1..Len(layers) |-> GrayOf(layers[k])]
    IN  [i \in 1..(4 * width * height) |->
            IF (i - 1) % 4 = 3 THEN 255 ELSE shade[picked[(i - 1) \div 4] + 1]]

\* the fillRect of line 55 left out: a transparent canvas
BackgroundData_Unfilled(width, height) == [i \in 1..(4 * width * height) |-> 0]

BackgroundData(width, height) ==
    [i \in 1..(4 * width * height) |-> BackgroundPixel[((i - 1) % 4) + 1]]

\* a canvas for a call that threw
Thrown == [width |-> 0, height |-> 0, data |-> <<>>, none |-> FALSE]

\* for some pixel idx is NaN or layers[idx] is no key of the catalog: mat of
\* line 100 is undefined and mat.etch of line 101 throws a TypeError
generatePatternThrows(layers, ops, width, height) ==
    /\ Len(layers) > 0
    /\ LET picked == PickedIndices(layers, ops, width, height)
       IN  \E p \in 0..(width * height - 1) :
              \/ picked[p] \notin 0..(Len(layers) - 1)
              \/ layers[picked[p] + 1] \notin MaterialType

\* generatePattern (lines 41-112).  getContext('2d') of the canvas element
\* created at line 47 yields a context, so the return of line 51 is not taken.
generatePattern(layers, ops, width, height) ==
    IF Len(layers) = 0
    THEN [width |-> width, height |-> height,
          data |-> BackgroundData(width, height), none |-> FALSE]
    ELSE [width |-> width, height |-> height,
          data |-> ImageData(layers, PickedIndices(layers, ops, width, height),
                             width, height),
          none |-> FALSE]


---------------------------------------------------------------------------
(* Text *)

\* characters outside ASCII, and the line feed
MultiplicationSign == "U+00D7"
NewLine == "U+000A"

Digits == <<"0", "1", "2", "3", "4", "5", "6", "7", "8", "9">>

\* the strings of the program that are printed or parsed, as atoms
KnownStrings ==
    {"1084", "15N20", "1095", "80CrV2", "52100", "5160",
     "PureNickel", "WroughtIron", "Pure Nickel", "Wrought Iron", "layers", "ops",
     "kind", "material", "count", "turns", "spacing", "depth",
     "radius", "folds", "times", "factor", "addSheets", "twist",
     "ladder", "raindrops", "wfolds", "fold", "stretch", "recipe"}

\* the characters of a known string
Spell(str) ==
    CASE str = "1084" -> <<"1", "0", "8", "4">>
      [] str = "15N20" -> <<"1", "5", "N", "2", "0">>
      [] str = "1095" -> <<"1", "0", "9", "5">>
      [] str = "80CrV2" -> <<"8", "0", "C", "r", "V", "2">>
      [] str = "52100" -> <<"5", "2", "1", "0", "0">>
      [] str = "5160" -> <<"5", "1", "6", "0">>
      [] str = "PureNickel" -> <<"P", "u", "r", "e", "N", "i", "c", "k", "e", "l">>
      [] str = "WroughtIron" -> <<"W", "r", "o", "u", "g", "h", "t", "I", "r", "o", "n">>
      [] str = "Pure Nickel" -> <<"P", "u", "r", "e", " ", "N", "i", "c", "k", "e", "l">>
      [] str = "Wrought Iron" -> <<"W", "r", "o", "u", "g", "h", "t", " ", "I", "r", "o", "n">>
      [] str = "layers" -> <<"l", "a", "y", "e", "r", "s">>
      [] str = "ops" -> <<"o", "p", "s">>
      [] str = "recipe" -> <<"r", "e", "c", "i", "p", "e">>
      [] str = "kind" -> <<"k", "i", "n", "d">>
      [] str = "material" -> <<"m", "a", "t", "e", "r", "i", "a", "l">>
      [] str = "count" -> <<"c", "o", "u", "n", "t">>
      [] str = "turns" -> <<"t", "u", "r", "n", "s">>
      [] str = "spacing" -> <<"s", "p", "a", "c", "i", "n", "g">>
      [] str = "depth" -> <<"d", "e", "p", "t", "h">>
      [] str = "radius" -> <<"r", "a", "d", "i", "u", "s">>
      [] str = "folds" -> <<"f", "o", "l", "d", "s">>
      [] str = "times" -> <<"t", "i", "m", "e", "s">>
      [] str = "factor" -> <<"f", "a", "c", "t", "o", "r">>
      [] str = "addSheets" -> <<"a", "d", "d", "S", "h", "e", "e", "t", "s">>
      [] str = "twist" -> <<"t", "w", "i", "s", "t">>
      [] str = "ladder" -> <<"l", "a", "d", "d", "e", "r">>
      [] str = "raindrops" -> <<"r", "a", "i", "n", "d", "r", "o", "p", "s">>
      [] str = "wfolds" -> <<"w", "f", "o", "l", "d", "s">>
      [] str = "fold" -> <<"f", "o", "l", "d">>
      [] str = "stretch" -> <<"s", "t", "r", "e", "t", "c", "h">>
      [] OTHER -> <<"?">>

\* the known string spelled by the characters cs, "?" when there is none
Unspell(cs) ==
    IF \E str \in KnownStrings : Spell(str) = cs
    THEN CHOOSE str \in KnownStrings : Spell(str) = cs
    ELSE "?"

\* the decimal digits of a natural number
RECURSIVE NatToStr(_)
NatToStr(n) ==
    IF n < 10 THEN <<Digits[n + 1]>>
    ELSE NatToStr(n \div 10) \o <<Digits[(n % 10) + 1]>>

\* the digits of a fraction f / 10^places without its trailing zeros
RECURSIVE FracToStr(_, _)
FracToStr(f, places) ==
    IF f = 0 \/ places = 0 THEN <<>>
    ELSE LET scale == IF places = 3 THEN 100 ELSE IF places = 2 THEN 10 ELSE 1
         IN  <<Digits[(f \div scale) + 1]>> \o FracToStr(f % scale, places - 1)

\* Number.prototype.toString of a number given in thousandths: `${n}`,
\* String(n) and JSON.stringify(n) print 1800 as 1.8, 80 as 0.08, 2000 as 2
NumToStr(milli) ==
    LET a == IAbs(milli)
    IN  (IF milli < 0 THEN <<"-">> ELSE <<>>)
        \o NatToStr(a \div Unit)
        \o (IF a % Unit = 0 THEN <<>> ELSE <<".">> \o FracToStr(a % Unit, 3))

\* haystack.includes(needle)
Includes(haystack, needle) ==
    \E i \in 0..(Len(haystack) - Len(needle)) :
        SubSeq(haystack, i + 1, i + Len(needle)) = needle

StartsWith(text, prefix) ==
    Len(prefix) <= Len(text) /\ SubSeq(text, 1, Len(prefix)) = prefix

EndsWith(text, suffix) ==
    Len(suffix) <= Len(text)
    /\ SubSeq(text, Len(text) - Len(suffix) + 1, Len(text)) = suffix

---------------------------------------------------------------------------
(* Instruction formatter *)

TxtStack == <<"S", "t", "a", "c", "k", " ">>
TxtSheetsOf == <<" ", "s", "h", "e", "e", "t", "(", "s", ")", " ", "o", "f", " ">>
TxtDot == <<".">>
TxtTwist == <<"T", "w", "i", "s", "t", " ", "b", "i", "l", "l", "e", "t", " ", "~">>
TxtFullTurns == <<" ", "f", "u", "l", "l", " ", "t", "u", "r", "n", "(", "s", ")", ".">>
TxtLadder == <<"L", "a", "d", "d", "e", "r", " ", "g", "r", "i", "n", "d", ":", " ", "s", "p", "a", "c", "i", "n", "g", " ">>
TxtDepth == <<",", " ", "d", "e", "p", "t", "h", " ">>
TxtRaindrop == <<"R", "a", "i", "n", "d", "r", "o", "p", " ", "p", "u", "n", "c", "h", ":", " ", "r", " ">>
TxtSpacing == <<",", " ", "s", "p", "a", "c", "i", "n", "g", " ">>
TxtWPattern == <<"W", "-", "p", "a", "t", "t", "e", "r", "n", ":", " ">>
TxtFolds == <<" ", "f", "o", "l", "d", "s", ".">>
TxtFoldBillet == <<"F", "o", "l", "d", " ", "b", "i", "l", "l", "e", "t", " ">>
TxtApprox == <<MultiplicationSign, " ", "(", "a", "p", "p", "r", "o", "x", " ", "d", "o", "u", "b", "l", "e", "s", " ", "l", "a", "y", "e", "r", " ", "c", "o", "u", "n", "t", " ", "e", "a", "c", "h", " ", "f", "o", "l", "d", ")", ".">>
TxtDrawOut == <<"D", "r", "a", "w", " ", "o", "u", "t", " ", MultiplicationSign>>

DegreeSign == "U+00B0"
TxtLayers == <<" ", "l", "a", "y", "e", "r", "s", ")", ".">>

\* Math.round(turns * 360) for turns in thousandths: a half rounds up
RoundDegrees(turns) == (turns * 360 * 2 + Unit) \div (2 * Unit)

\* the sheets named by the material identifier instead of its display name
LineAddSheets_MaterialId(op) ==
    TxtStack \o NumToStr(op.count) \o TxtSheetsOf \o Spell(op.material) \o TxtDot

\* case 'addSheets' (line 120)
LineAddSheets(op) ==
    TxtStack \o NumToStr(op.count) \o TxtSheetsOf
    \o Spell(MATERIALS[op.material].name) \o TxtDot

\* the twist line with the degrees of the editor's preview (line 660) appended
LineTwist_WithDegrees(op) ==
    TxtTwist \o NumToStr(op.turns) \o TxtFullTurns
    \o <<" ", "(">> \o NatToStr(RoundDegrees(op.turns)) \o <<DegreeSign, ")">>

\* case 'twist' (line 123)
LineTwist(op) == TxtTwist \o NumToStr(op.turns) \o TxtFullTurns

\* case 'ladder' (line 126)
LineLadder(op) ==
    TxtLadder \o NumToStr(op.spacing) \o TxtDepth \o NumToStr(op.depth) \o TxtDot

\* case 'raindrops' (line 129)
LineRaindrops(op) ==
    TxtRaindrop \o NumToStr(op.radius) \o TxtSpacing \o NumToStr(op.spacing) \o TxtDot

\* case 'wfolds' (line 132)
LineWFolds(op) == TxtWPattern \o NumToStr(op.folds) \o TxtFolds

\* the fold line with the multiplier of the editor's preview (line 664)
LineFold_WithMultiplier(op) ==
    TxtFoldBillet \o NumToStr(op.times) \o <<MultiplicationSign, " ", "(", MultiplicationSign>>
    \o NatToStr(Pow2(QFloor[QOf[op.times]])) \o TxtLayers

\* case 'fold' (line 135)
LineFold(op) == TxtFoldBillet \o NumToStr(op.times) \o TxtApprox

\* case 'stretch' (line 138)
LineStretch(op) == TxtDrawOut \o NumToStr(op.factor) \o TxtDot

\* the line pushed for one operation, <<>> standing for no push (lines 118-140)
InstructionLine(op) ==
    CASE op.kind = "addSheets" -> <<LineAddSheets(op)>>
      [] op.kind = "twist" -> <<LineTwist(op)>>
      [] op.kind = "ladder" -> <<LineLadder(op)>>
      [] op.kind = "raindrops" -> <<LineRaindrops(op)>>
      [] op.kind = "wfolds" -> <<LineWFolds(op)>>
      [] op.kind = "fold" -> <<LineFold(op)>>
      [] op.kind = "stretch" -> <<LineStretch(op)>>
      [] OTHER -> <<>>

\* lines.unshift in place of lines.push: the newest line first
RECURSIVE PushLines_Unshift(_, _)
PushLines_Unshift(ops, lines) ==
    IF ops = <<>> THEN lines
    ELSE PushLines_Unshift(Tail(ops), InstructionLine(Head(ops)) \o lines)

\* ops.forEach(... lines.push(...)) starting from the lines pushed so far
RECURSIVE PushLines(_, _)
PushLines(ops, lines) ==
    IF ops = <<>> THEN lines
    ELSE PushLines(Tail(ops), lines \o InstructionLine(Head(ops)))

\* instructionsFromOps (lines 115-143)
instructionsFromOps(ops) == PushLines(ops, <<>>)

---------------------------------------------------------------------------
(* Inputs of the generator *)

\* a run of n consecutive catalog entries starting at entry r + 1
StackRun(n, r) == [i \in 1..n |-> MaterialOrder[((r + i - 1) % Len(MaterialOrder)) + 1]]

\* base of quickBase (lines 897-901): pairs of '1084', '15N20'
BasePairs(pairs) == [i \in 1..(2 * pairs) |-> IF i % 2 = 1 THEN "1084" ELSE "15N20"]

GenStacks == {StackRun(n, r) : n \in 0..MaxStack, r \in 0..(Len(MaterialOrder) - 1)}

\* the operations the six modifier buttons open with (lines 1188-1218), the
\* ones of the smoke tests (lines 961-994) and presets of the editors
OpAddSheets == [kind |-> "addSheets", material |-> "1084", count |-> 3 * Unit]
OpAddNickel == [kind |-> "addSheets", material |-> "PureNickel", count |-> 1 * Unit]
OpTwist == [kind |-> "twist", turns |-> 1 * Unit]
OpTwistQuarter == [kind |-> "twist", turns |-> 250]
OpLadder == [kind |-> "ladder", spacing |-> 80, depth |-> 600]
OpRaindrops == [kind |-> "raindrops", radius |-> 70, spacing |-> 120]
OpWFolds == [kind |-> "wfolds", folds |-> 6 * Unit]
OpFold == [kind |-> "fold", times |-> 1 * Unit]
OpFoldTwice == [kind |-> "fold", times |-> 2 * Unit]
OpStretch == [kind |-> "stretch", factor |-> 1800]
OpStretchDouble == [kind |-> "stretch", factor |-> 2 * Unit]

\* fold operations at and outside the ends of the editor's range 1..5
OpFoldNone == [kind |-> "fold", times |-> 0]
OpFoldHalf == [kind |-> "fold", times |-> 500]
OpFoldBack == [kind |-> "fold", times |-> -1 * Unit]
OpFoldThrice == [kind |-> "fold", times |-> 3 * Unit]
OpFoldOverflow == [kind |-> "fold", times |-> MaxExponent * Unit]
OpFoldHalfway == [kind |-> "fold", times |-> (MaxExponent \div 2) * Unit]

GenOpLists ==
    { <<>>, <<OpAddSheets>>, <<OpTwist>>, <<OpTwistQuarter>>, <<OpLadder>>,
      <<OpRaindrops>>, <<OpWFolds>>, <<OpFold>>, <<OpFoldTwice>>, <<OpStretch>>,
      <<OpStretch, OpLadder>>, <<OpLadder, OpStretch>>,
      <<OpFold, OpLadder>>, <<OpLadder, OpFold>>,
      <<OpFold, OpFold>>, <<OpAddSheets, OpFoldTwice, OpAddNickel>>,
      <<OpTwistQuarter, OpWFolds>>, <<OpStretchDouble, OpRaindrops>>,
      <<OpFoldNone>>, <<OpFoldHalf>>, <<OpFoldBack>>, <<OpFoldThrice>>,
      <<OpFoldTwice, OpFold>>, <<OpFoldOverflow>>, <<OpLadder, OpFoldOverflow, OpLadder>>,
      <<OpLadder, OpAddSheets, OpStretch>>, <<OpFoldHalfway, OpFoldHalfway>> }

\* the scenario of the fold test: 5 pairs, Fold(2), 64 x 32
ScenarioPairs == 5
ScenarioWidth == 64
ScenarioHeight == 32

\* the scenario of the empty stack: generatePattern([], [], 16, 8)
EmptyScenarioWidth == 16
EmptyScenarioHeight == 8

---------------------------------------------------------------------------
(* The generator as a state machine: the arguments are drawn, the call is made *)

NoResult == [called |-> FALSE, lines |-> <<>>]

\* the formatter is not part of the behaviour
FmtIdle == fOps = <<>> /\ fResult = NoResult

\* nothing written yet: no file downloaded, nothing on the clipboard
Nothing == [none |-> TRUE, text |-> <<>>, recipe |-> [layers |-> <<>>, ops |-> <<>>]]

\* the page is not part of the behaviour
AppIdle ==
    /\ aLayers = <<>>
    /\ aOps = <<>>
    /\ past = <<>>
    /\ future = <<>>
    /\ file = Nothing
    /\ clipboard = Nothing
    /\ last = "none"

\* no callback of updateOpSmooth is waiting for a frame
NoCallback == [index |-> 0, next |-> <<>>, layers |-> <<>>, ops |-> <<>>]

SmoothIdle == frameRef = 0 /\ pending = NoCallback

\* the rendering of the page is not part of the behaviour
PageIdle == patternCanvas = NoCanvas /\ crashed = FALSE /\ SmoothIdle

\* the default size of a canvas element
DefaultCanvasSize == <<300, 150>>

\* no renderer is part of the behaviour
PaneIdle ==
    /\ pane = "none"
    /\ hasCtx = FALSE
    /\ effect = 0
    /\ rafRef = 0
    /\ frames = {}
    /\ listeners = {}
    /\ handles = 0
    /\ canvasSize = DefaultCanvasSize

\* no frame of the blade is part of the behaviour
KnifeIdle ==
    /\ kRaster = NoCanvas
    /\ kOffset = <<0, 1>>
    /\ kDrawn = FALSE
    /\ kBlits = <<>>

\* no rectangle filled
NoFill == [none |-> TRUE, style |-> "", x |-> <<0, 1>>, y |-> <<0, 1>>,
           w |-> <<0, 1>>, h |-> <<0, 1>>]

\* no frame of the block is part of the behaviour
BilletIdle ==
    /\ bRaster = NoCanvas
    /\ bSize = DefaultCanvasSize
    /\ bAngle = 0
    /\ bBlits = <<>>
    /\ bFill = NoFill

DrawIdle == KnifeIdle /\ BilletIdle

OthersIdle == PageIdle /\ PaneIdle /\ DrawIdle

\* the generator is not part of the behaviour
GenIdle ==
    /\ gLayers = <<>>
    /\ gOps = <<>>
    /\ gWidth = 0
    /\ gHeight = 0
    /\ gCanvas = NoCanvas
    /\ gPicked = <<>>

InitPattern ==
    /\ FmtIdle
    /\ AppIdle
    /\ OthersIdle
    /\ \/ /\ gLayers \in GenStacks
          /\ gOps \in GenOpLists
          /\ gWidth \in 1..MaxWidth
          /\ gHeight \in 1..MaxHeight
       \/ /\ gLayers = BasePairs(ScenarioPairs)
          /\ gOps = <<OpFoldTwice>>
          /\ gWidth = ScenarioWidth
          /\ gHeight = ScenarioHeight
       \/ /\ gLayers = <<>>
          /\ gOps = <<>>
          /\ gWidth = EmptyScenarioWidth
          /\ gHeight = EmptyScenarioHeight
    /\ gCanvas = NoCanvas
    /\ gPicked = <<>>

\* one call of generatePattern(gLayers, gOps, gWidth, gHeight)
Generate ==
    /\ gCanvas.none
    /\ gCanvas' = IF generatePatternThrows(gLayers, gOps, gWidth, gHeight) THEN Thrown
                  ELSE generatePattern(gLayers, gOps, gWidth, gHeight)
    /\ gPicked' = IF Len(gLayers) = 0 THEN <<>>
                  ELSE PickedIndices(gLayers, gOps, gWidth, gHeight)
    /\ UNCHANGED <<gLayers, gOps, gWidth, gHeight>>
    /\ UNCHANGED fmtVars
    /\ UNCHANGED appVars
    /\ UNCHANGED otherVars

NextPattern == Generate

SpecPattern == InitPattern /\ [][NextPattern]_vars


---------------------------------------------------------------------------
(* Properties of the generator *)

Generated == ~gCanvas.none

\* the pixel of the returned image at (x, y), as <<R, G, B, A>>
PixelAt(canvas, x, y) ==
    LET off == (y * canvas.width + x) * 4
    IN  <<canvas.data[off + 1], canvas.data[off + 2], canvas.data[off + 3],
          canvas.data[off + 4]>>

\* the number of maximal runs of equal brightness down column x
BandCount(canvas, x) ==
    1 + Cardinality({y \in 1..(canvas.height - 1) :
                        PixelAt(canvas, x, y) # PixelAt(canvas, x, y - 1)})

Thm_C2_EmptyStackBackground ==
    (Generated /\ Len(gLayers) = 0) =>
        /\ gCanvas.width = gWidth
        /\ gCanvas.height = gHeight
        /\ Len(gCanvas.data) = 4 * gWidth * gHeight
        /\ \A x \in 0..(gWidth - 1), y \in 0..(gHeight - 1) :
              PixelAt(gCanvas, x, y) = BackgroundPixel
        /\ gPicked = <<>>

Wit_C2_EmptyStackBackground ==
    /\ Generated
    /\ Len(gLayers) = 0
    /\ Len(gOps) >= 2
    /\ gWidth * gHeight >= 4

IsFoldScenario ==
    /\ gLayers = BasePairs(ScenarioPairs)
    /\ gOps = <<OpFoldTwice>>
    /\ gWidth = ScenarioWidth
    /\ gHeight = ScenarioHeight

\* C3 as claimed: in the fold scenario every column shows 40 bands and every
\* one of the 10 layers appears in it.
Cex_C3_FortyBands ==
    (Generated /\ IsFoldScenario) =>
        \A x \in 0..(gWidth - 1) :
            /\ BandCount(gCanvas, x) = 40
            /\ {gPicked[y * gWidth + x] : y \in 0..(gHeight - 1)} = 0..9

\* C3 as amended: in the fold scenario every column passes through the stack
\* four times, the layer index of row y being floor(10 * (y mod 8) / 8); each
\* pass of 8 rows samples the layers 0, 1, 2, 3, 5, 6, 7, 8 only (layers 4 and
\* 9 fall between rows), and the column shows 25 runs of equal brightness.
Thm_C3_FoldScenario ==
    (Generated /\ IsFoldScenario) =>
        \A x \in 0..(gWidth - 1) :
            /\ \A y \in 0..(gHeight - 1) :
                  gPicked[y * gWidth + x] = (10 * (y % 8)) \div 8
            /\ {gPicked[y * gWidth + x] : y \in 0..(gHeight - 1)} = (0..9) \ {4, 9}
            /\ Cardinality({y \in 0..(gHeight - 1) : gPicked[y * gWidth + x] = 0}) = 4
            /\ BandCount(gCanvas, x) = 25

Wit_C3_FoldScenario ==
    /\ Generated
    /\ IsFoldScenario
    /\ gPicked[31 * gWidth + 63] = 8


---------------------------------------------------------------------------
(* The formatter as a state machine: the argument is drawn, the call is made *)

FmtOpSamples ==
    {OpAddSheets, OpAddNickel, OpTwist, OpTwistQuarter, OpLadder, OpRaindrops,
     OpWFolds, OpFold, OpFoldTwice, OpStretch, OpStretchDouble}

FmtOpLists == UNION {[1..n -> FmtOpSamples] : n \in 0..MaxFmtOps}

InitFormat ==
    /\ GenIdle
    /\ AppIdle
    /\ OthersIdle
    /\ fOps \in FmtOpLists
    /\ fResult = NoResult

\* one call of instructionsFromOps(fOps)
Format ==
    /\ ~fResult.called
    /\ fResult' = [called |-> TRUE, lines |-> instructionsFromOps(fOps)]
    /\ UNCHANGED fOps
    /\ UNCHANGED genVars
    /\ UNCHANGED appVars
    /\ UNCHANGED otherVars

NextFormat == Format

SpecFormat == InitFormat /\ [][NextFormat]_vars


---------------------------------------------------------------------------
(* Properties of the formatter *)

Formatted == fResult.called

\* the operation kind a line is phrased for, by its opening words
LineKind(line) ==
    CASE StartsWith(line, TxtStack) -> "addSheets"
      [] StartsWith(line, TxtTwist) -> "twist"
      [] StartsWith(line, TxtLadder) -> "ladder"
      [] StartsWith(line, TxtRaindrop) -> "raindrops"
      [] StartsWith(line, TxtWPattern) -> "wfolds"
      [] StartsWith(line, TxtFoldBillet) -> "fold"
      [] StartsWith(line, TxtDrawOut) -> "stretch"
      [] OTHER -> "?"

\* the numeric parameters of an operation
OpNumbers(op) ==
    CASE op.kind = "addSheets" -> {op.count}
      [] op.kind = "twist" -> {op.turns}
      [] op.kind = "ladder" -> {op.spacing, op.depth}
      [] op.kind = "raindrops" -> {op.radius, op.spacing}
      [] op.kind = "wfolds" -> {op.folds}
      [] op.kind = "fold" -> {op.times}
      [] op.kind = "stretch" -> {op.factor}
      [] OTHER -> {}

\* the digit characters a text holds
DigitsIn(text) == {text[i] : i \in {j \in 1..Len(text) : \E d \in 1..10 : text[j] = Digits[d]}}

\* C7: instructionsFromOps returns one line per operation, line i phrased for
\* the kind of operation i and holding its numbers; no operations, no lines.
Thm_C7_OneLinePerOp ==
    Formatted =>
        /\ Len(fResult.lines) = Len(fOps)
        /\ \A i \in 1..Len(fOps) :
              /\ LineKind(fResult.lines[i]) = fOps[i].kind
              /\ \A n \in OpNumbers(fOps[i]) : Includes(fResult.lines[i], NumToStr(n))
        /\ (fOps = <<>> => fResult.lines = <<>>)

Wit_C7_OneLinePerOp ==
    /\ Formatted
    /\ fOps = <<OpFoldTwice, OpLadder>>
    /\ Len(fResult.lines) = 2

\* C8 as claimed: the line of Fold(times) holds the fold count and the layer
\* multiplier 2^floor(times).
Cex_C8_FoldMultiplier ==
    Formatted =>
        \A i \in 1..Len(fOps) :
            fOps[i].kind = "fold" =>
                /\ Includes(fResult.lines[i], NumToStr(fOps[i].times))
                /\ Includes(fResult.lines[i],
                            NatToStr(Pow2(QFloor[QOf[fOps[i].times]])))

\* C8 as amended: the line of Fold(times) is "Fold billet <times>" followed
\* by the fixed text "x (approx doubles layer count each fold)."; the fold
\* count is the only number in it, the multiplier 2^floor(times) is not
\* printed.  format([Fold(2)]) is the single line stating 2x, without a 4.
Thm_C8_FoldLine ==
    Formatted =>
        /\ \A i \in 1..Len(fOps) :
              fOps[i].kind = "fold" =>
                  LET line == fResult.lines[i]
                      count == NumToStr(fOps[i].times)
                  IN  /\ StartsWith(line, TxtFoldBillet \o count \o <<MultiplicationSign>>)
                      /\ EndsWith(line, TxtApprox)
                      /\ Len(line) = Len(TxtFoldBillet) + Len(count) + Len(TxtApprox)
                      /\ DigitsIn(line) = DigitsIn(count)
        /\ (fOps = <<OpFoldTwice>> =>
              /\ Len(fResult.lines) = 1
              /\ Includes(fResult.lines[1], <<"2", MultiplicationSign>>)
              /\ ~Includes(fResult.lines[1], <<"4">>))

Wit_C8_FoldLine ==
    /\ Formatted
    /\ fOps = <<OpFoldTwice>>
    /\ Len(fResult.lines) = 1

\* C9 as claimed: the line of Twist(turns) holds the turns and the degrees
\* round(turns * 360).
Cex_C9_TwistDegrees ==
    Formatted =>
        \A i \in 1..Len(fOps) :
            fOps[i].kind = "twist" =>
                /\ Includes(fResult.lines[i], NumToStr(fOps[i].turns))
                /\ Includes(fResult.lines[i], NatToStr(RoundDegrees(fOps[i].turns)))

\* C9 as amended: the line of Twist(turns) is "Twist billet ~<turns> full
\* turn(s)."; it shows the twist as a number of turns only, the turns are the
\* only number in it and no degree value or degree sign is printed.
Thm_C9_TwistLine ==
    Formatted =>
        \A i \in 1..Len(fOps) :
            fOps[i].kind = "twist" =>
                LET line == fResult.lines[i]
                    turns == NumToStr(fOps[i].turns)
                IN  /\ StartsWith(line, TxtTwist \o turns)
                    /\ EndsWith(line, TxtFullTurns)
                    /\ Len(line) = Len(TxtTwist) + Len(turns) + Len(TxtFullTurns)
                    /\ DigitsIn(line) = DigitsIn(turns)
                    /\ ~Includes(line, <<DegreeSign>>)

Wit_C9_TwistLine ==
    /\ Formatted
    /\ \E i \in 1..Len(fOps) : fOps[i] = OpTwistQuarter
    /\ Len(fResult.lines) = Len(fOps)

\* C10: the line of AddSheets(material, count) holds "Stack <count>" and the
\* display name the catalog gives the material; the line of Stretch(factor)
\* holds the factor right after the multiplication sign.
Thm_C10_SheetsAndStretch ==
    Formatted =>
        \A i \in 1..Len(fOps) :
            /\ fOps[i].kind = "addSheets" =>
                  /\ Includes(fResult.lines[i], TxtStack \o NumToStr(fOps[i].count))
                  /\ Includes(fResult.lines[i],
                              Spell(MATERIAL_CATALOG[fOps[i].material].name))
            /\ fOps[i].kind = "stretch" =>
                  Includes(fResult.lines[i],
                           <<MultiplicationSign>> \o NumToStr(fOps[i].factor))

Wit_C10_SheetsAndStretch ==
    /\ Formatted
    /\ fOps = <<OpAddSheets, OpStretchDouble>>
    /\ Len(fResult.lines) = 2
    /\ Includes(fResult.lines[1], <<"3">>)
    /\ Includes(fResult.lines[2], <<"2">>)

---------------------------------------------------------------------------
(* Text as bytes, base64 and percent-encoding (lines 933, 950, 1021-1027) *)

\* the characters \ and the grave accent (written by name)
ReverseSolidus == "U+005C"
GraveAccent == "U+0060"

\* the printable ASCII characters in code order: Ascii[i] has the code 31 + i
Ascii ==
    <<" ", "!", "\"", "#", "$", "%", "&", "'", "(", ")", "*", "+", ",", "-", ".", "/",
      "0", "1", "2", "3", "4", "5", "6", "7", "8", "9", ":", ";", "<", "=", ">", "?",
      "@", "A", "B", "C", "D", "E", "F", "G", "H", "I", "J", "K", "L", "M", "N", "O",
      "P", "Q", "R", "S", "T", "U", "V", "W", "X", "Y", "Z", "[", ReverseSolidus, "]", "^", "_",
      GraveAccent, "a", "b", "c", "d", "e", "f", "g", "h", "i", "j", "k", "l", "m", "n", "o",
      "p", "q", "r", "s", "t", "u", "v", "w", "x", "y", "z", "{", "|", "}", "~">>

AsciiChars == {Ascii[i] : i \in 1..Len(Ascii)}

\* the character that replaces bytes that are no text
ReplacementChar == "U+FFFD"

\* the UTF-8 byte of a character of the texts written here (ASCII and line feed)
ByteOf ==
    [c \in AsciiChars \cup {NewLine} |->
        IF c = NewLine THEN 10 ELSE 31 + (CHOOSE i \in 1..Len(Ascii) : Ascii[i] = c)]

CharOf ==
    [b \in 0..255 |->
        IF b = 10 THEN NewLine
        ELSE IF b >= 32 /\ b <= 126 THEN Ascii[b - 31]
        ELSE ReplacementChar]

\* unescape(encodeURIComponent(str)), and the bytes of new Blob([str]):
\* the UTF-8 bytes of the text
Utf8Encode(text) == [i \in 1..Len(text) |-> ByteOf[text[i]]]

\* decodeURIComponent(escape(bin)), and FileReader.readAsText: the text of the bytes
Utf8Decode(bytes) == [i \in 1..Len(bytes) |-> CharOf[bytes[i]]]

\* the concatenation of the sequences pieces[1], ..., pieces[n]
Concat(pieces) ==
    LET cat[lo \in 1..(Len(pieces) + 1), hi \in 0..Len(pieces)] ==
            IF lo > hi THEN <<>>
            ELSE IF lo = hi THEN pieces[lo]
            ELSE cat[lo, (lo + hi) \div 2] \o cat[((lo + hi) \div 2) + 1, hi]
    IN  cat[1, Len(pieces)]

B64Alphabet ==
    <<"A", "B", "C", "D", "E", "F", "G", "H", "I", "J", "K", "L", "M", "N", "O", "P",
      "Q", "R", "S", "T", "U", "V", "W", "X", "Y", "Z", "a", "b", "c", "d", "e", "f",
      "g", "h", "i", "j", "k", "l", "m", "n", "o", "p", "q", "r", "s", "t", "u", "v",
      "w", "x", "y", "z", "0", "1", "2", "3", "4", "5", "6", "7", "8", "9", "+", "/">>

B64Chars == {B64Alphabet[i] : i \in 1..Len(B64Alphabet)}

B64Index == [c \in B64Chars |-> (CHOOSE i \in 1..Len(B64Alphabet) : B64Alphabet[i] = c) - 1]

\* btoa: every 3 bytes give 4 characters, the last group is padded with "="
btoa(bytes) ==
    LET n == Len(bytes)
        at(k) == IF k <= n THEN bytes[k] ELSE 0
        sextet(g, k) ==
            CASE k = 0 -> at(3 * g + 1) \div 4
              [] k = 1 -> ((at(3 * g + 1) % 4) * 16) + (at(3 * g + 2) \div 16)
              [] k = 2 -> ((at(3 * g + 2) % 16) * 4) + (at(3 * g + 3) \div 64)
              [] OTHER -> at(3 * g + 3) % 64
    IN  [j \in 1..(4 * ((n + 2) \div 3)) |->
            LET g == (j - 1) \div 4
                k == (j - 1) % 4
            IN  IF (k = 2 /\ 3 * g + 2 > n) \/ (k = 3 /\ 3 * g + 3 > n)
                THEN "="
                ELSE B64Alphabet[sextet(g, k) + 1]]

IsSpace(c) == c \in {" ", NewLine}

NotSpace(c) == ~IsSpace(c)

\* atob: white space is dropped, one or two "=" at the end of a text of a
\* multiple of 4 characters are dropped, then a length of 4k + 1 or a character
\* outside the alphabet throws (ok = FALSE)
atob(cs) ==
    LET ws == SelectSeq(cs, NotSpace)
        n0 == Len(ws)
        body == IF n0 % 4 = 0 /\ n0 >= 1 /\ ws[n0] = "="
                THEN IF ws[n0 - 1] = "=" THEN SubSeq(ws, 1, n0 - 2)
                     ELSE SubSeq(ws, 1, n0 - 1)
                ELSE ws
        n == Len(body)
        at(k) == IF k <= n THEN B64Index[body[k]] ELSE 0
    IN  IF n % 4 = 1 \/ \E i \in 1..n : body[i] \notin B64Chars
        THEN [ok |-> FALSE, bytes |-> <<>>]
        ELSE [ok |-> TRUE,
              bytes |-> [j \in 1..((n * 6) \div 8) |->
                           LET g == (j - 1) \div 3
                               k == (j - 1) % 3
                           IN  CASE k = 0 -> (at(4 * g + 1) * 4) + (at(4 * g + 2) \div 16)
                                 [] k = 1 -> ((at(4 * g + 2) % 16) * 16) + (at(4 * g + 3) \div 4)
                                 [] OTHER -> ((at(4 * g + 3) % 4) * 64) + at(4 * g + 4)]]

HexDigits == <<"0", "1", "2", "3", "4", "5", "6", "7", "8", "9", "A", "B", "C", "D", "E", "F">>

LowerHexDigits == <<"0", "1", "2", "3", "4", "5", "6", "7", "8", "9", "a", "b", "c", "d", "e", "f">>

IsHex(c) == \E i \in 1..16 : HexDigits[i] = c \/ LowerHexDigits[i] = c

HexVal(c) == (CHOOSE i \in 1..16 : HexDigits[i] = c \/ LowerHexDigits[i] = c) - 1

\* the characters encodeURIComponent leaves as they are
UriUnreserved ==
    (B64Chars \ {"+", "/"}) \cup {"-", "_", ".", "!", "~", "'", "(", ")", "*"}

\* encodeURIComponent of ASCII text: every other character becomes %XX
encodeURIComponent(cs) ==
    Concat([i \in 1..Len(cs) |->
               IF cs[i] \in UriUnreserved THEN <<cs[i]>>
               ELSE <<"%", HexDigits[(ByteOf[cs[i]] \div 16) + 1],
                           HexDigits[(ByteOf[cs[i]] % 16) + 1]>>])

\* the least element of a non-empty set of integers
Min(S) == CHOOSE i \in S : \A j \in S : i <= j

\* percent-decoding of a name or value of a query: "+" is a space, %XX a byte
FormDecode(cs) ==
    LET n == Len(cs)
        escapeAt(i) == cs[i] = "%" /\ i + 2 <= n /\ IsHex(cs[i + 1]) /\ IsHex(cs[i + 2])
        covered(i) == (i > 1 /\ escapeAt(i - 1)) \/ (i > 2 /\ escapeAt(i - 2))
    IN  Concat([i \in 1..n |->
                   IF covered(i) THEN <<>>
                   ELSE IF escapeAt(i)
                        THEN <<CharOf[(16 * HexVal(cs[i + 1])) + HexVal(cs[i + 2])]>>
                   ELSE IF cs[i] = "+" THEN <<" ">>
                   ELSE <<cs[i]>>])

\* the value of a query parameter read without any decoding
URLSearchParamsGet_Raw(search, name) ==
    LET q == IF search # <<>> /\ search[1] = "?" THEN Tail(search) ELSE search
        eq == {i \in 1..Len(q) : q[i] = "="}
    IN  IF eq # {} /\ SubSeq(q, 1, Min(eq) - 1) = name
        THEN [found |-> TRUE, value |-> SubSeq(q, Min(eq) + 1, Len(q))]
        ELSE [found |-> FALSE, value |-> <<>>]

\* new URLSearchParams(search).get(name): the query is split at "&", each part
\* at its first "=", both sides are decoded; the first part named name counts
URLSearchParamsGet(search, name) ==
    LET q == IF search # <<>> /\ search[1] = "?" THEN Tail(search) ELSE search
        n == Len(q)
        amps == {i \in 1..n : q[i] = "&"}
        starts == {1} \cup {i + 1 : i \in amps}
        endOf(b) == LET later == {i \in amps : i >= b}
                    IN  IF later = {} THEN n ELSE Min(later) - 1
        eqOf(b) == {i \in b..endOf(b) : q[i] = "="}
        nameOf(b) == FormDecode(SubSeq(q, b, IF eqOf(b) = {} THEN endOf(b)
                                             ELSE Min(eqOf(b)) - 1))
        valueOf(b) == IF eqOf(b) = {} THEN <<>>
                      ELSE FormDecode(SubSeq(q, Min(eqOf(b)) + 1, endOf(b)))
        hits == {b \in starts : b <= endOf(b) /\ nameOf(b) = name}
    IN  IF hits = {} THEN [found |-> FALSE, value |-> <<>>]
        ELSE [found |-> TRUE, value |-> valueOf(Min(hits))]

\* location.search of a page opened at url: the text from the first "?" on
SearchOf(url) ==
    LET marks == {i \in 1..Len(url) : url[i] = "?"}
    IN  IF marks = {} THEN <<>> ELSE SubSeq(url, Min(marks), Len(url))

---------------------------------------------------------------------------
(* JSON.stringify and JSON.parse of a recipe (lines 932, 946, 1021-1022) *)

\* A JSON value is [t |-> "str", v |-> characters], [t |-> "num", v |-> thousandths],
\* [t |-> "arr", v |-> values] or [t |-> "obj", v |-> <<key, value>> pairs in order].
JStr(cs) == [t |-> "str", v |-> cs]
JNum(milli) == [t |-> "num", v |-> milli]
JArr(items) == [t |-> "arr", v |-> items]
JObj(members) == [t |-> "obj", v |-> members]

\* the properties of an operation in the order the page writes them
\* (lines 893, 1188-1218)
OpFields(kind) ==
    CASE kind = "addSheets" -> <<"kind", "material", "count">>
      [] kind = "twist" -> <<"kind", "turns">>
      [] kind = "ladder" -> <<"kind", "spacing", "depth">>
      [] kind = "raindrops" -> <<"kind", "radius", "spacing">>
      [] kind = "wfolds" -> <<"kind", "folds">>
      [] kind = "fold" -> <<"kind", "times">>
      [] kind = "stretch" -> <<"kind", "factor">>

TextFields == {"kind", "material"}

OpTree(op) ==
    JObj([i \in 1..Len(OpFields(op.kind)) |->
            LET f == OpFields(op.kind)[i]
            IN  <<Spell(f), IF f \in TextFields THEN JStr(Spell(op[f])) ELSE JNum(op[f])>>])

\* the object { layers, ops } of lines 932 and 1039
RecipeTree(recipe) ==
    JObj(<< <<Spell("layers"),
              JArr([i \in 1..Len(recipe.layers) |-> JStr(Spell(recipe.layers[i]))])>>,
            <<Spell("ops"),
              JArr([i \in 1..Len(recipe.ops) |-> OpTree(recipe.ops[i])])>> >>)

Spaces(n) == [i \in 1..n |-> " "]

\* the line break and indentation before an item at a nesting level
Separator(indent, level) ==
    IF indent = 0 THEN <<>> ELSE <<NewLine>> \o Spaces(indent * level)

\* pieces[1], sep, pieces[2], ..., sep, pieces[n]
JoinWith(pieces, sep) ==
    Concat([i \in 1..(2 * Len(pieces) - 1) |->
               IF i % 2 = 1 THEN pieces[(i + 1) \div 2] ELSE sep])

\* a string of a recipe holds no character that JSON escapes
Quote(cs) == <<"\"">> \o cs \o <<"\"">>

\* JSON.stringify with the array items in reverse order
RECURSIVE Stringify_Reversed(_, _, _)
Stringify_Reversed(node, indent, level) ==
    CASE node.t = "str" -> Quote(node.v)
      [] node.t = "num" -> NumToStr(node.v)
      [] node.t = "arr" ->
           IF Len(node.v) = 0 THEN <<"[", "]">>
           ELSE <<"[">> \o Separator(indent, level + 1)
                \o JoinWith([i \in 1..Len(node.v) |->
                                Stringify_Reversed(node.v[Len(node.v) + 1 - i],
                                                   indent, level + 1)],
                            <<",">> \o Separator(indent, level + 1))
                \o Separator(indent, level) \o <<"]">>
      [] node.t = "obj" ->
           IF Len(node.v) = 0 THEN <<"{", "}">>
           ELSE <<"{">> \o Separator(indent, level + 1)
                \o JoinWith([i \in 1..Len(node.v) |->
                                Quote(node.v[i][1]) \o <<":">>
                                \o (IF indent = 0 THEN <<>> ELSE <<" ">>)
                                \o Stringify_Reversed(node.v[i][2], indent, level + 1)],
                            <<",">> \o Separator(indent, level + 1))
                \o Separator(indent, level) \o <<"}">>

\* JSON.stringify(value, null, indent) at a nesting level; indent 0 is the
\* compact form of JSON.stringify(value)
RECURSIVE Stringify(_, _, _)
Stringify(node, indent, level) ==
    CASE node.t = "str" -> Quote(node.v)
      [] node.t = "num" -> NumToStr(node.v)
      [] node.t = "arr" ->
           IF Len(node.v) = 0 THEN <<"[", "]">>
           ELSE <<"[">> \o Separator(indent, level + 1)
                \o JoinWith([i \in 1..Len(node.v) |->
                                Stringify(node.v[i], indent, level + 1)],
                            <<",">> \o Separator(indent, level + 1))
                \o Separator(indent, level) \o <<"]">>
      [] node.t = "obj" ->
           IF Len(node.v) = 0 THEN <<"{", "}">>
           ELSE <<"{">> \o Separator(indent, level + 1)
                \o JoinWith([i \in 1..Len(node.v) |->
                                Quote(node.v[i][1]) \o <<":">>
                                \o (IF indent = 0 THEN <<>> ELSE <<" ">>)
                                \o Stringify(node.v[i][2], indent, level + 1)],
                            <<",">> \o Separator(indent, level + 1))
                \o Separator(indent, level) \o <<"}">>

JSONstringify(recipe, indent) == Stringify(RecipeTree(recipe), indent, 0)

\* a parse that failed: JSON.parse throws a SyntaxError
ParseFail == [ok |-> FALSE, val |-> JArr(<<>>), pos |-> 0]

IsDigit(c) == \E d \in 1..10 : Digits[d] = c

DigitVal(c) == (CHOOSE d \in 1..10 : Digits[d] = c) - 1

\* the first position at or after i that holds no white space
RECURSIVE SkipSpace(_, _)
SkipSpace(cs, i) ==
    IF i <= Len(cs) /\ IsSpace(cs[i]) THEN SkipSpace(cs, i + 1) ELSE i

\* the first position at or after i that holds no digit
RECURSIVE SkipDigits(_, _)
SkipDigits(cs, i) ==
    IF i <= Len(cs) /\ IsDigit(cs[i]) THEN SkipDigits(cs, i + 1) ELSE i

\* the first position at or after i that holds the closing quote, 0 without one
RECURSIVE ClosingQuote(_, _)
ClosingQuote(cs, i) ==
    IF i > Len(cs) \/ cs[i] = ReverseSolidus THEN 0
    ELSE IF cs[i] = "\"" THEN i
    ELSE ClosingQuote(cs, i + 1)

\* the number written by the digits cs[a..b]
RECURSIVE NatOf(_, _, _)
NatOf(cs, a, b) ==
    IF a > b THEN 0 ELSE (10 * NatOf(cs, a, b - 1)) + DigitVal(cs[b])

\* a string starting at the quote at position i
ParseString(cs, i) ==
    LET e == ClosingQuote(cs, i + 1)
    IN  IF e = 0 THEN ParseFail
        ELSE [ok |-> TRUE, val |-> JStr(SubSeq(cs, i + 1, e - 1)), pos |-> e + 1]

\* a number starting at position i: -? digits (. digits)?, kept in thousandths
ParseNumber(cs, i) ==
    LET neg == cs[i] = "-"
        a == IF neg THEN i + 1 ELSE i
        b == SkipDigits(cs, a)
        dot == b <= Len(cs) /\ cs[b] = "."
        c == IF dot THEN SkipDigits(cs, b + 1) ELSE b
        places == IF dot THEN c - b - 1 ELSE 0
        whole == NatOf(cs, a, b - 1)
        frac == IF places = 0 THEN 0
                ELSE IF places = 1 THEN 100 * NatOf(cs, b + 1, c - 1)
                ELSE IF places = 2 THEN 10 * NatOf(cs, b + 1, c - 1)
                ELSE NatOf(cs, b + 1, b + 3)
        exact == places <= 3 \/ NatOf(cs, b + 4, c - 1) = 0
        milli == (whole * Unit) + frac
    IN  IF b = a \/ (dot /\ places = 0) \/ ~exact
           \/ (b - a > 1 /\ cs[a] = "0")
           \/ (c <= Len(cs) /\ cs[c] \in {"e", "E"})
        THEN ParseFail
        ELSE [ok |-> TRUE, val |-> JNum(IF neg THEN -milli ELSE milli), pos |-> c]

RECURSIVE ParseValue(_, _)
RECURSIVE ParseItems(_, _, _)
RECURSIVE ParseMembers(_, _, _)

\* a value starting at or after position i0
ParseValue(cs, i0) ==
    LET i == SkipSpace(cs, i0)
    IN  IF i > Len(cs) THEN ParseFail
        ELSE IF cs[i] = "\"" THEN ParseString(cs, i)
        ELSE IF cs[i] = "[" THEN
            (IF SkipSpace(cs, i + 1) <= Len(cs) /\ cs[SkipSpace(cs, i + 1)] = "]"
             THEN [ok |-> TRUE, val |-> JArr(<<>>), pos |-> SkipSpace(cs, i + 1) + 1]
             ELSE ParseItems(cs, i + 1, <<>>))
        ELSE IF cs[i] = "{" THEN
            (IF SkipSpace(cs, i + 1) <= Len(cs) /\ cs[SkipSpace(cs, i + 1)] = "}"
             THEN [ok |-> TRUE, val |-> JObj(<<>>), pos |-> SkipSpace(cs, i + 1) + 1]
             ELSE ParseMembers(cs, i + 1, <<>>))
        ELSE IF cs[i] = "-" \/ IsDigit(cs[i]) THEN ParseNumber(cs, i)
        ELSE ParseFail

\* the items of an array from position i on, acc those read before
ParseItems(cs, i, acc) ==
    LET r == ParseValue(cs, i)
        k == SkipSpace(cs, r.pos)
    IN  IF ~r.ok \/ k > Len(cs) THEN ParseFail
        ELSE IF cs[k] = "," THEN ParseItems(cs, k + 1, Append(acc, r.val))
        ELSE IF cs[k] = "]"
             THEN [ok |-> TRUE, val |-> JArr(Append(acc, r.val)), pos |-> k + 1]
        ELSE ParseFail

\* the members of an object from position i on, acc those read before
ParseMembers(cs, i, acc) ==
    LET j == SkipSpace(cs, i)
        key == IF j <= Len(cs) /\ cs[j] = "\"" THEN ParseString(cs, j) ELSE ParseFail
        colon == SkipSpace(cs, key.pos)
        r == ParseValue(cs, colon + 1)
        k == SkipSpace(cs, r.pos)
    IN  IF ~key.ok \/ colon > Len(cs) THEN ParseFail
        ELSE IF cs[colon] # ":" THEN ParseFail
        ELSE IF ~r.ok \/ k > Len(cs) THEN ParseFail
        ELSE IF cs[k] = ","
             THEN ParseMembers(cs, k + 1, Append(acc, <<key.val.v, r.val>>))
        ELSE IF cs[k] = "}"
             THEN [ok |-> TRUE, val |-> JObj(Append(acc, <<key.val.v, r.val>>)),
                   pos |-> k + 1]
        ELSE ParseFail

\* JSON.parse(text): ok = FALSE when it throws
JSONparse(cs) ==
    LET r == ParseValue(cs, 1)
    IN  IF r.ok /\ SkipSpace(cs, r.pos) > Len(cs)
        THEN [ok |-> TRUE, val |-> r.val]
        ELSE [ok |-> FALSE, val |-> JArr(<<>>)]

\* does the parsed object have an array under the key: Array.isArray(obj[key])
HasArray(node, key) ==
    /\ node.t = "obj"
    /\ \E i \in 1..Len(node.v) : node.v[i][1] = Spell(key) /\ node.v[i][2].t = "arr"

\* obj[key]: the value of the last member with that key
Member(node, key) ==
    node.v[CHOOSE i \in 1..Len(node.v) :
               /\ node.v[i][1] = Spell(key)
               /\ \A j \in (i + 1)..Len(node.v) : node.v[j][1] # Spell(key)][2]

\* the value a JSON value stands for: text as a string, an array as a
\* sequence, an object as a record
RECURSIVE ValueOf(_)
ValueOf(node) ==
    CASE node.t = "str" -> Unspell(node.v)
      [] node.t = "num" -> node.v
      [] node.t = "arr" -> [i \in 1..Len(node.v) |-> ValueOf(node.v[i])]
      [] node.t = "obj" ->
           [f \in {Unspell(node.v[i][1]) : i \in 1..Len(node.v)} |->
               ValueOf(Member(node, f))]

---------------------------------------------------------------------------
(* The page: state, history, save, load and share (lines 846-956, 1021-1042) *)

\* the largest count of sheets added at once
MaxCount == 2

\* the argument of quickBase at line 1167
QuickBasePairs == 5

\* the indentation of JSON.stringify({ layers, ops }, null, 2) at line 932
SaveIndent == 2

\* encode of line 1021
encode(recipe) == encodeURIComponent(btoa(Utf8Encode(JSONstringify(recipe, 0))))

\* decode of line 1022: ok = FALSE when atob or JSON.parse throws
decode(cs) ==
    LET a == atob(cs)
        p == JSONparse(Utf8Decode(a.bytes))
    IN  IF a.ok /\ p.ok THEN [ok |-> TRUE, val |-> p.val]
        ELSE [ok |-> FALSE, val |-> JArr(<<>>)]

\* the state of a page: layers, ops and the undo/redo history
FreshPage == [layers |-> <<>>, ops |-> <<>>, past |-> <<>>, future |-> <<>>]

\* an argument of commit: null, or a new list
Keep == [set |-> FALSE, to |-> <<>>]
SetTo(list) == [set |-> TRUE, to |-> list]

snapshot(page) == [layers |-> page.layers, ops |-> page.ops]

\* a commit that leaves the redo list as it is
commit_KeepsFuture(page, nl, no) ==
    [layers |-> IF nl.set THEN nl.to ELSE page.layers,
     ops    |-> IF no.set THEN no.to ELSE page.ops,
     past   |-> Append(page.past, snapshot(page)),
     future |-> page.future]

\* commit (lines 856-862)
commit(page, nl, no) ==
    [layers |-> IF nl.set THEN nl.to ELSE page.layers,
     ops    |-> IF no.set THEN no.to ELSE page.ops,
     past   |-> Append(page.past, snapshot(page)),
     future |-> <<>>]

\* an undo that keeps for redo the state it goes back to, not the one it leaves
undo_KeepsPrev(page) ==
    IF Len(page.past) = 0 THEN page
    ELSE LET prev == page.past[Len(page.past)]
         IN  [layers |-> prev.layers,
              ops    |-> prev.ops,
              past   |-> SubSeq(page.past, 1, Len(page.past) - 1),
              future |-> <<prev>> \o page.future]

\* undo (lines 863-872)
undo(page) ==
    IF Len(page.past) = 0 THEN page
    ELSE LET prev == page.past[Len(page.past)]
         IN  [layers |-> prev.layers,
              ops    |-> prev.ops,
              past   |-> SubSeq(page.past, 1, Len(page.past) - 1),
              future |-> <<snapshot(page)>> \o page.future]

\* redo (lines 873-882)
redo(page) ==
    IF Len(page.future) = 0 THEN page
    ELSE LET nxt == page.future[1]
         IN  [layers |-> nxt.layers,
              ops    |-> nxt.ops,
              past   |-> Append(page.past, snapshot(page)),
              future |-> Tail(page.future)]

\* pushOp (line 890)
pushOp(page, op) == commit(page, Keep, SetTo(Append(page.ops, op)))

\* addSheets (lines 891-895)
addSheets(page, mat, count) ==
    commit(page,
           SetTo(page.layers \o [i \in 1..count |-> mat]),
           SetTo(Append(page.ops,
                        [kind |-> "addSheets", material |-> mat, count |-> count * Unit])))

\* quickBase (lines 897-901)
quickBase(page, pairs) == commit(page, SetTo(BasePairs(pairs)), SetTo(<<>>))

\* the button Clear All (line 1170)
clearAll(page) == commit(page, SetTo(<<>>), SetTo(<<>>))

\* one use of the page's controls
Edit(do, mat, count, op) == [do |-> do, mat |-> mat, count |-> count, op |-> op]
DoAdd(mat, count) == Edit("addSheets", mat, count, OpTwist)
DoPush(op) == Edit("pushOp", "1084", 1, op)
DoQuickBase == Edit("quickBase", "1084", 1, OpTwist)
DoClearAll == Edit("clearAll", "1084", 1, OpTwist)
DoUndo == Edit("undo", "1084", 1, OpTwist)
DoRedo == Edit("redo", "1084", 1, OpTwist)

ApplyEdit(page, e) ==
    CASE e.do = "addSheets" -> addSheets(page, e.mat, e.count)
      [] e.do = "pushOp" -> pushOp(page, e.op)
      [] e.do = "quickBase" -> quickBase(page, QuickBasePairs)
      [] e.do = "clearAll" -> clearAll(page)
      [] e.do = "undo" -> undo(page)
      [] e.do = "redo" -> redo(page)

\* the page after a sequence of edits
RECURSIVE PageAfter(_, _)
PageAfter(page, edits) ==
    IF edits = <<>> THEN page
    ELSE PageAfter(ApplyEdit(page, Head(edits)), Tail(edits))

\* the operations the buttons of the page offer (lines 1188-1218)
DefaultOps == {OpLadder, OpRaindrops, OpWFolds, OpFold, OpTwist, OpStretch}

\* the uses of the controls that lead to the pages looked at
EditScripts ==
    { <<>>,
      <<DoQuickBase>>,
      <<DoQuickBase, DoPush(OpTwist)>>,
      <<DoQuickBase, DoPush(OpFold), DoPush(OpLadder)>>,
      <<DoQuickBase, DoPush(OpRaindrops), DoUndo>>,
      <<DoQuickBase, DoPush(OpStretch), DoUndo, DoRedo>>,
      <<DoQuickBase, DoPush(OpWFolds), DoClearAll>>,
      <<DoQuickBase, DoAdd("PureNickel", 1), DoPush(OpTwistQuarter)>> }
    \cup { <<DoAdd(m, c)>> : m \in MaterialType, c \in 1..MaxCount }
    \cup { <<DoAdd(m, c), DoPush(op)>> :
              m \in {"15N20", "WroughtIron"}, c \in 1..MaxCount, op \in DefaultOps }
    \cup { <<DoAdd("1084", c), DoAdd("15N20", c), DoPush(OpFoldTwice)>> : c \in 1..MaxCount }

\* the address of the page without its query: location.origin, location.pathname
PageUrl == <<"h", "t", "t", "p", "s", ":", "/", "/", "d", ".", "p", "/">>

TxtQuery == <<"?">> \o Spell("recipe") \o <<"=">>

\* the state variables of the page as one value, and back
Page == [layers |-> aLayers, ops |-> aOps, past |-> past, future |-> future]

Recipe == [layers |-> aLayers, ops |-> aOps]

SetPage(page) ==
    /\ aLayers' = page.layers
    /\ aOps' = page.ops
    /\ past' = page.past
    /\ future' = page.future

\* the page as some use of its controls has left it; nothing saved or copied
InitRecipe ==
    /\ GenIdle
    /\ FmtIdle
    /\ OthersIdle
    /\ \E script \in EditScripts :
          LET page == PageAfter(FreshPage, script)
          IN  /\ aLayers = page.layers
              /\ aOps = page.ops
              /\ past = page.past
              /\ future = page.future
    /\ file = Nothing
    /\ clipboard = Nothing
    /\ last = "none"

\* the button Undo (line 1223), disabled with an empty past
Undo ==
    /\ Len(past) > 0
    /\ SetPage(undo(Page))
    /\ last' = "undo"
    /\ UNCHANGED <<file, clipboard>>
    /\ UNCHANGED <<genVars, fmtVars, otherVars>>

\* saveRecipe (lines 931-940): the browser downloads the bytes of the text
SaveRecipe ==
    /\ file' = [none |-> FALSE,
                text |-> Utf8Encode(JSONstringify(Recipe, SaveIndent)),
                recipe |-> Recipe]
    /\ last' = "saveRecipe"
    /\ UNCHANGED <<aLayers, aOps, past, future, clipboard>>
    /\ UNCHANGED <<genVars, fmtVars, otherVars>>

\* a load that sets the stack and the list and leaves the history
Adopt_KeepsHistory(page, parsed) ==
    IF parsed.ok /\ HasArray(parsed.val, "layers") /\ HasArray(parsed.val, "ops")
    THEN [layers |-> ValueOf(Member(parsed.val, "layers")),
          ops    |-> ValueOf(Member(parsed.val, "ops")),
          past   |-> page.past,
          future |-> page.future]
    ELSE page

\* the state loadRecipe and the share effect leave when given a parsed text
\* (lines 946-952, 1028-1034)
Adopt(page, parsed) ==
    IF parsed.ok /\ HasArray(parsed.val, "layers") /\ HasArray(parsed.val, "ops")
    THEN [layers |-> ValueOf(Member(parsed.val, "layers")),
          ops    |-> ValueOf(Member(parsed.val, "ops")),
          past   |-> <<>>,
          future |-> <<>>]
    ELSE page

\* loadRecipe (lines 942-956) of the file downloaded last
LoadRecipe ==
    /\ ~file.none
    /\ SetPage(Adopt(Page, JSONparse(Utf8Decode(file.text))))
    /\ last' = "loadRecipe"
    /\ UNCHANGED <<file, clipboard>>
    /\ UNCHANGED <<genVars, fmtVars, otherVars>>

\* copyShareURL (lines 1038-1042)
CopyShareURL ==
    /\ clipboard' = [none |-> FALSE,
                     text |-> PageUrl \o TxtQuery \o encode(Recipe),
                     recipe |-> Recipe]
    /\ last' = "copyShareURL"
    /\ UNCHANGED <<aLayers, aOps, past, future, file>>
    /\ UNCHANGED <<genVars, fmtVars, otherVars>>

\* the effect of lines 1024-1036 in a page opened at a given address
SharedPage(url) ==
    LET qp == URLSearchParamsGet(SearchOf(url), Spell("recipe"))
    IN  IF ~qp.found \/ qp.value = <<>> THEN FreshPage
        ELSE Adopt(FreshPage, decode(qp.value))

\* the copied link is opened: a new page is constructed and its effect runs
OpenShared ==
    /\ ~clipboard.none
    /\ SetPage(SharedPage(clipboard.text))
    /\ last' = "openShared"
    /\ UNCHANGED <<file, clipboard>>
    /\ UNCHANGED <<genVars, fmtVars, otherVars>>

NextRecipe ==
    \/ Undo
    \/ SaveRecipe
    \/ LoadRecipe
    \/ CopyShareURL
    \/ OpenShared

SpecRecipe == InitRecipe /\ [][NextRecipe]_vars

---------------------------------------------------------------------------
(* Properties of save, load and share *)

Loaded == last = "loadRecipe"

Opened == last = "openShared"

\* the token of the copied link: the text after "?recipe="
CopiedToken ==
    SubSeq(clipboard.text, Len(PageUrl) + Len(TxtQuery) + 1, Len(clipboard.text))

\* C5 as stated: decode applied directly to the token made by encode returns
\* the layers and operations that were encoded.
Cex_C5_DirectDecode ==
    ~clipboard.none =>
        LET d == decode(CopiedToken)
        IN  /\ d.ok
            /\ HasArray(d.val, "layers")
            /\ HasArray(d.val, "ops")
            /\ ValueOf(Member(d.val, "layers")) = clipboard.recipe.layers
            /\ ValueOf(Member(d.val, "ops")) = clipboard.recipe.ops

\* C5: a page opened at the copied link, where decode is given the value of
\* the query parameter recipe as URLSearchParams returns it, holds layers and
\* operations equal to those that were encoded, in the same order; decode given
\* the token itself throws whenever the token holds a percent escape.
Thm_C5_SharedLink ==
    /\ Opened => /\ aLayers = clipboard.recipe.layers
                 /\ aOps = clipboard.recipe.ops
    /\ (~clipboard.none /\ Includes(CopiedToken, <<"%">>)) => ~decode(CopiedToken).ok

Wit_C5_SharedLink ==
    /\ Opened
    /\ Len(aLayers) > 1
    /\ Len(aOps) > 1
    /\ Includes(CopiedToken, <<"%">>)

\* C6: loading the file that saveRecipe wrote leaves layers and ops equal,
\* element for element and in the same order, to those that were saved.
Thm_C6_SaveLoad ==
    Loaded => /\ aLayers = file.recipe.layers
              /\ aOps = file.recipe.ops

Wit_C6_SaveLoad ==
    /\ Loaded
    /\ Len(aLayers) > 1
    /\ aLayers[1] # aLayers[2]
    /\ Len(aOps) > 1
    /\ \E i \in 1..Len(aOps) : aOps[i].kind = "ladder"

---------------------------------------------------------------------------
(* The page driven by its controls, and the render that follows each change
   of state (lines 846-956, 1024-1036, 1255-1259) *)

\* the longest undo history followed
MaxHistory == 2

\* the longest operation list the controls build
MaxOps == 2

\* the size of the raster of the page, standing for 1024 x 512 of line 887
PatternWidth == 2
PatternHeight == 2

\* useMemo with the dependency [layers] alone
useMemoPattern_LayersOnly(prev, layersChanged, opsChanged, layers, ops) ==
    IF layersChanged
    THEN IF Len(layers) = 0 THEN NoCanvas
         ELSE generatePattern(layers, ops, PatternWidth, PatternHeight)
    ELSE prev

\* patternCanvas of lines 884-888 at a render: useMemo calls its function
\* again when layers or ops is another array than at the render before
useMemoPattern(prev, layersChanged, opsChanged, layers, ops) ==
    IF layersChanged \/ opsChanged
    THEN IF Len(layers) = 0 THEN NoCanvas
         ELSE generatePattern(layers, ops, PatternWidth, PatternHeight)
    ELSE prev

\* the property patternCanvas given to BilletPane or KnifePane (lines 1256, 1258)
PaneCanvas == IF Len(aLayers) > 0 THEN patternCanvas ELSE NoCanvas

\* moveOp without the return of line 906: a move off the end commits the
\* list as it is
moveOp_AlwaysCommits(page, idx, dir) ==
    LET ni == idx + dir
    IN  commit(page, Keep,
               SetTo([i \in 1..Len(page.ops) |->
                         IF ni < 0 \/ ni >= Len(page.ops) THEN page.ops[i]
                         ELSE IF i = idx + 1 THEN page.ops[ni + 1]
                         ELSE IF i = ni + 1 THEN page.ops[idx + 1]
                         ELSE page.ops[i]]))

\* moveOp (lines 903-911), idx counted from 0 and inside the list
moveOp(page, idx, dir) ==
    LET ni == idx + dir
    IN  IF ni < 0 \/ ni >= Len(page.ops) THEN page
        ELSE commit(page, Keep,
                    SetTo([i \in 1..Len(page.ops) |->
                              IF i = idx + 1 THEN page.ops[ni + 1]
                              ELSE IF i = ni + 1 THEN page.ops[idx + 1]
                              ELSE page.ops[i]]))

\* { ...op, ...patch } of line 914
Patched(op, patch) ==
    [f \in (DOMAIN op) \cup (DOMAIN patch) |->
        IF f \in DOMAIN patch THEN patch[f] ELSE op[f]]

\* updateOp (lines 913-916), index counted from 0
updateOp(page, index, patch) ==
    commit(page, Keep,
           SetTo([i \in 1..Len(page.ops) |->
                     IF i = index + 1 THEN Patched(page.ops[i], patch) ELSE page.ops[i]]))

\* removeOp (line 917), idx counted from 0
removeOp(page, idx) ==
    commit(page, Keep,
           SetTo([i \in 1..(Len(page.ops) - (IF idx < Len(page.ops) THEN 1 ELSE 0)) |->
                     IF i < idx + 1 THEN page.ops[i] ELSE page.ops[i + 1]]))

\* the steels chosen in the palette and the operations confirmed in the bubble
PaletteSteels == {"WroughtIron"}
BubbleOps == {OpLadder, OpFold}

\* a patch of updateOp
PatchTimes == [times |-> 2 * Unit]

\* a recipe written by hand with a steel the catalog does not have
HandWritten == [layers |-> <<"?">>, ops |-> <<>>]

\* a recipe saved by the page earlier
SavedEarlier == [layers |-> <<"1095", "15N20">>, ops |-> <<OpFold>>]

\* the files the user may choose: two recipes, a text that is not JSON and
\* an object whose layers is not an array
RecipeFiles ==
    { Utf8Encode(JSONstringify(HandWritten, SaveIndent)),
      Utf8Encode(JSONstringify(SavedEarlier, SaveIndent)),
      Utf8Encode(Spell("recipe")),
      Utf8Encode(Stringify(JObj(<< <<Spell("layers"), JStr(Spell("1084"))>>,
                                   <<Spell("ops"), JArr(<<>>)>> >>), 0, 0)) }

\* the addresses the page may be opened at: with a recipe, without a query
\* and with a recipe that is not a token
SharedLinks ==
    { PageUrl \o TxtQuery \o encode(HandWritten),
      PageUrl \o TxtQuery \o encode(SavedEarlier),
      PageUrl,
      PageUrl \o TxtQuery \o Spell("recipe") }

\* what JSON.parse makes of each file (line 946)
ParsedFiles == {JSONparse(Utf8Decode(text)) : text \in RecipeFiles}

\* the page each address leads to
LinkedPages == {SharedPage(url) : url \in SharedLinks}

\* React renders the page again after a handler has changed its state; a
\* render in which generatePattern throws unmounts the page
Rendered(page, layersChanged, opsChanged) ==
    /\ SetPage(page)
    /\ IF (layersChanged \/ opsChanged)
          /\ generatePatternThrows(page.layers, page.ops, PatternWidth, PatternHeight)
       THEN /\ crashed' = TRUE
            /\ patternCanvas' = NoCanvas
       ELSE /\ crashed' = FALSE
            /\ patternCanvas' = useMemoPattern(patternCanvas, layersChanged, opsChanged,
                                               page.layers, page.ops)
    /\ UNCHANGED <<file, clipboard, last>>
    /\ UNCHANGED <<genVars, fmtVars, paneVars, drawVars>>

\* the render after a handler that leaves frameRef and the frame alone
Render(page, layersChanged, opsChanged) ==
    /\ Rendered(page, layersChanged, opsChanged)
    /\ UNCHANGED <<frameRef, pending>>

\* the controls can be used: the page is mounted and the history is not full
CanCommit == ~crashed /\ Len(past) < MaxHistory

\* the page is opened at an address: it is constructed, rendered with its
\* initial state, and the effect of lines 1024-1036 has run
InitPage ==
    /\ GenIdle
    /\ FmtIdle
    /\ PaneIdle
    /\ DrawIdle
    /\ SmoothIdle
    /\ \E page \in LinkedPages :
          LET throws == generatePatternThrows(page.layers, page.ops,
                                              PatternWidth, PatternHeight)
          IN  /\ aLayers = page.layers
              /\ aOps = page.ops
              /\ past = page.past
              /\ future = page.future
              /\ crashed = throws
              /\ patternCanvas = IF throws THEN NoCanvas
                                 ELSE useMemoPattern(NoCanvas, TRUE, TRUE,
                                                     page.layers, page.ops)
    /\ file = Nothing
    /\ clipboard = Nothing
    /\ last = "none"

\* a button of MaterialPalette (lines 554-565)
AddSheets ==
    /\ CanCommit
    /\ Len(aOps) < MaxOps
    /\ \E mat \in PaletteSteels, count \in 1..MaxCount :
          /\ Len(aLayers) + count <= MaxStack
          /\ Render(addSheets(Page, mat, count), TRUE, TRUE)

\* the button Quick base (line 1167)
QuickBase ==
    /\ CanCommit
    /\ Render(quickBase(Page, QuickBasePairs), TRUE, TRUE)

\* the button Clear All (line 1170)
ClearAll ==
    /\ CanCommit
    /\ Render(clearAll(Page), TRUE, TRUE)

\* confirmBubble (lines 1117-1120)
PushOp ==
    /\ CanCommit
    /\ Len(aOps) < MaxOps
    /\ \E op \in BubbleOps : Render(pushOp(Page, op), FALSE, TRUE)

MoveOp ==
    /\ CanCommit
    /\ \E idx \in 0..(Len(aOps) - 1), dir \in {-1, 1} :
          LET moved == moveOp(Page, idx, dir)
          IN  Render(moved, FALSE, moved # Page)

UpdateOp ==
    /\ CanCommit
    /\ \E index \in 0..(Len(aOps) - 1) : Render(updateOp(Page, index, PatchTimes), FALSE, TRUE)

RemoveOp ==
    /\ CanCommit
    /\ \E idx \in 0..(Len(aOps) - 1) : Render(removeOp(Page, idx), FALSE, TRUE)

\* the button Undo (line 1223): prev.layers and prev.ops are the copies made
\* by snapshot
ClickUndo ==
    /\ ~crashed
    /\ Len(past) > 0
    /\ Render(undo(Page), TRUE, TRUE)

\* the button Redo (line 1226)
ClickRedo ==
    /\ ~crashed
    /\ Len(future) > 0
    /\ Render(redo(Page), TRUE, TRUE)

\* Ctrl/Cmd+Z and Ctrl/Cmd+Shift+Z (lines 1007-1018): undo and redo called
\* whatever the history holds; with nothing to go to the state setters get
\* the values they had and the page is not rendered again
KeyUndo ==
    /\ ~crashed
    /\ Render(undo(Page), Len(past) > 0, Len(past) > 0)

KeyRedo ==
    /\ ~crashed
    /\ Render(redo(Page), Len(future) > 0, Len(future) > 0)

\* loadRecipe (lines 942-956) of a file the user chooses
PickFile ==
    /\ ~crashed
    /\ \E parsed \in ParsedFiles :
          LET taken == parsed.ok /\ HasArray(parsed.val, "layers") /\ HasArray(parsed.val, "ops")
          IN  Render(Adopt(Page, parsed), taken, taken)

NextPage ==
    \/ AddSheets
    \/ QuickBase
    \/ ClearAll
    \/ PushOp
    \/ MoveOp
    \/ UpdateOp
    \/ RemoveOp
    \/ ClickUndo
    \/ ClickRedo
    \/ KeyUndo
    \/ KeyRedo
    \/ PickFile

SpecPage == InitPage /\ [][NextPage]_vars

---------------------------------------------------------------------------
(* Properties of the page *)

\* C11 as stated: every entry of the stack the page holds, which is the one
\* passed to generatePattern, is an identifier of the catalog, and the render
\* never fails on a missing material.
Cex_C11_CatalogIds ==
    /\ \A i \in 1..Len(aLayers) : aLayers[i] \in MaterialType
    /\ ~crashed

\* the raster synthesized from the stack and the operations the page holds
CurrentRaster ==
    IF Len(aLayers) = 0 THEN NoCanvas
    ELSE generatePattern(aLayers, aOps, PatternWidth, PatternHeight)

\* C14: while the page is mounted, the raster handed to the renderer is the one
\* synthesized from the current stack and the current operation list, and it
\* is null when the stack is empty.
Thm_C14_RasterIsCurrent ==
    ~crashed => /\ PaneCanvas = CurrentRaster
                /\ (Len(aLayers) = 0 => PaneCanvas.none)

\* the operations changed while the stack stayed the same array, and the
\* raster of the operations before differs from the one handed over
Wit_C14_RasterIsCurrent ==
    /\ ~crashed
    /\ Len(aLayers) > 1
    /\ Len(past) > 0
    /\ past[Len(past)].layers = aLayers
    /\ past[Len(past)].ops # aOps
    /\ PaneCanvas # generatePattern(aLayers, past[Len(past)].ops, PatternWidth, PatternHeight)

RECURSIVE UndoTimes(_, _)
UndoTimes(page, n) == IF n = 0 THEN page ELSE UndoTimes(undo(page), n - 1)

RECURSIVE RedoTimes(_, _)
RedoTimes(page, n) == IF n = 0 THEN page ELSE RedoTimes(redo(page), n - 1)

\* in a state of the page: undo with nothing to undo and redo with nothing
\* to redo leave the page as it is; a redo after an undo gives back the page
\* as it was, history included; so do n redos after n undos
UndoRedoInverse ==
    /\ Len(past) = 0 => undo(Page) = Page
    /\ Len(future) = 0 => redo(Page) = Page
    /\ Len(past) > 0 => /\ undo(Page) # Page
                        /\ redo(undo(Page)) = Page
    /\ \A n \in 1..Len(past) : RedoTimes(UndoTimes(Page, n), n) = Page

\* a step of the page that adds an undo entry and leaves nothing to redo: a commit
CommitStep == Len(past') = Len(past) + 1 /\ future' = <<>>

\* a step of the page that takes an undo entry away and adds one to redo: an undo
UndoStep == Len(past) > 0 /\ Len(past') = Len(past) - 1 /\ Len(future') = Len(future) + 1

\* after a commit, undo gives the stack and the list the commit started from
CommitUndone ==
    CommitStep => (undo(Page').layers = aLayers /\ undo(Page').ops = aOps)

\* an undo leaves the stack and the list of the entry it takes away, and a
\* redo after it gives back the page the undo started from
UndoRedone ==
    UndoStep => (/\ aLayers' = past[Len(past)].layers
                 /\ aOps' = past[Len(past)].ops
                 /\ redo(Page') = Page)

\* C24: undo and redo are inverse over the history.  After a commit, undo
\* gives the stack and the operation list that held before the commit; after
\* an undo the stack and the list are those of the undo entry taken away and
\* redo gives back the page the undo left; n redos after n undos give back
\* the page; undo with an empty past and redo with an empty future change
\* nothing.
Thm_C24_UndoRedoInverse ==
    /\ []UndoRedoInverse
    /\ [][CommitUndone /\ UndoRedone]_vars

\* the page after two undos in a row that changed it, with both to redo
Wit_C24_UndoRedoInverse ==
    /\ ~crashed
    /\ Len(future) >= 2
    /\ future[1] # Recipe
    /\ future[2] # future[1]
    /\ RedoTimes(Page, 2).future = <<>>

\* the pages addSheets can leave
SheetsAdded ==
    {addSheets(Page, mat, count) : mat \in PaletteSteels, count \in 1..MaxCount}

\* the pages the other handlers that commit can leave (lines 890-917, 1167,
\* 1170); a moveOp that returns early leaves the page it found
OthersDone ==
    {quickBase(Page, QuickBasePairs), clearAll(Page)}
        \cup {pushOp(Page, op) : op \in BubbleOps}
        \cup {moveOp(Page, idx, dir) : idx \in 0..(Len(aOps) - 1), dir \in {-1, 1}}
        \cup {updateOp(Page, index, PatchTimes) : index \in 0..(Len(aOps) - 1)}
        \cup {removeOp(Page, idx) : idx \in 0..(Len(aOps) - 1)}

\* a step of addSheets
SheetsStep == Page' \in SheetsAdded

\* a step of one of the handlers that commit
EditStep == Page' \in (SheetsAdded \cup OthersDone)

\* the commit left nothing to redo and one more undo entry, the state it
\* started from, and one undo goes back to that state
OneSnapshot ==
    /\ future' = <<>>
    /\ redo(Page') = Page'
    /\ past' = Append(past, snapshot(Page))
    /\ undo(Page').layers = aLayers
    /\ undo(Page').ops = aOps
    /\ undo(Page').past = past

\* addSheets added layers and its record in one commit
SheetsAndRecord ==
    /\ Len(aLayers') > Len(aLayers)
    /\ Len(aOps') = Len(aOps) + 1
    /\ aOps'[Len(aOps')].kind = "addSheets"
    /\ aOps'[Len(aOps')].count = (Len(aLayers') - Len(aLayers)) * Unit

\* C25: every step of addSheets, quickBase, Clear All, pushOp, moveOp,
\* updateOp and removeOp that changes the page empties the redo list and
\* appends to the undo list exactly one entry, the stack and the operation
\* list the step started from; redo right after it does nothing and one undo
\* gives back that stack and that list, for addSheets both the layers added
\* and the record appended.
Thm_C25_CommitHistory ==
    [][(EditStep => OneSnapshot) /\ (SheetsStep => SheetsAndRecord)]_vars

\* the page right after sheets were added to a page that had a history
Wit_C25_CommitHistory ==
    /\ ~crashed
    /\ future = <<>>
    /\ Len(past) >= 2
    /\ Len(aOps) >= 2
    /\ aOps[Len(aOps)].kind = "addSheets"
    /\ past[Len(past)].ops = SubSeq(aOps, 1, Len(aOps) - 1)
    /\ Len(past[Len(past)].layers) < Len(aLayers)
    /\ past[Len(past)].layers = SubSeq(aLayers, 1, Len(past[Len(past)].layers))

\* texts that are not recipes: not JSON, layers a string, ops a number, ops
\* missing, and an array
NotRecipes ==
    { Spell("recipe"),
      Stringify(JObj(<< <<Spell("layers"), JStr(Spell("1084"))>>,
                        <<Spell("ops"), JArr(<<>>)>> >>), 0, 0),
      Stringify(JObj(<< <<Spell("layers"), JArr(<<>>)>>,
                        <<Spell("ops"), JNum(Unit)>> >>), 0, 0),
      Stringify(JObj(<< <<Spell("layers"), JArr(<<>>)>> >>), 0, 0),
      Stringify(JArr(<<>>), 0, 0) }

\* recipes the page can be given
GoodRecipes == {HandWritten, SavedEarlier}

\* the page holding a recipe and no history
Holding(recipe) ==
    [layers |-> recipe.layers, ops |-> recipe.ops, past |-> <<>>, future |-> <<>>]

\* what reader.onload (lines 944-954) makes of the page for a file's bytes
OnLoad(page, bytes) == Adopt(page, JSONparse(Utf8Decode(bytes)))

\* loadRecipe on the page as it is now
LoadsFromFile ==
    /\ \A text \in NotRecipes : OnLoad(Page, Utf8Encode(text)) = Page
    /\ \A recipe \in GoodRecipes :
          OnLoad(Page, Utf8Encode(JSONstringify(recipe, SaveIndent))) = Holding(recipe)

\* the share effect in a page opened at an address
LoadsFromLink ==
    /\ \A text \in NotRecipes :
          /\ SharedPage(PageUrl \o TxtQuery \o text) = FreshPage
          /\ SharedPage(PageUrl \o TxtQuery \o encodeURIComponent(btoa(Utf8Encode(text))))
                = FreshPage
    /\ \A recipe \in GoodRecipes :
          SharedPage(PageUrl \o TxtQuery \o encode(recipe)) = Holding(recipe)

\* C26: a load, from a file or from the recipe parameter of the address,
\* of a text that cannot be parsed or whose layers or ops is not an array
\* is caught or turned down by the test of lines 947 and 1029 and leaves the
\* stack, the operation list and both history lists as they were; a load of a recipe sets the stack and the list to
\* the recipe's and empties both history lists.
Thm_C26_LoadRecipe ==
    /\ [](LoadsFromFile /\ LoadsFromLink)
    /\ [][PickFile => \E recipe \in GoodRecipes : Page' = Holding(recipe)]_vars

\* a saved recipe has been loaded and the page shows it
Wit_C26_LoadRecipe ==
    /\ ~crashed
    /\ Page = Holding(SavedEarlier)
    /\ patternCanvas # NoCanvas

---------------------------------------------------------------------------
(* The throttled update updateOpSmooth (lines 1051-1060) and the frame it
   asks for, among the other handlers of the page *)

\* frameRef and the callback as one value
Smooth == [frame |-> frameRef, callback |-> pending]

\* updateOpSmooth (lines 1052-1060): next is made from the ops of the render
\* the handler belongs to; the callback given to requestAnimationFrame keeps
\* next and, through commit and snapshot, the layers and ops of that render
updateOpSmooth(page, smooth, index, patch) ==
    LET next == [i \in 1..Len(page.ops) |->
                    IF i = index + 1 THEN Patched(page.ops[i], patch) ELSE page.ops[i]]
    IN  IF smooth.frame # 0 THEN smooth
        ELSE [frame    |-> 1,
              callback |-> [index |-> index, next |-> next,
                            layers |-> page.layers, ops |-> page.ops]]

\* the callback of lines 1056-1059: commit(null, next) of the render that
\* made it.  snapshot() gives that render's layers and ops, setPast and
\* setFuture act on the history as it is now, setOps puts next and setLayers
\* is not called
frameCallback(page, callback) ==
    LET then == [layers |-> callback.layers, ops |-> callback.ops,
                 past |-> page.past, future |-> page.future]
    IN  [commit(then, Keep, SetTo(callback.next)) EXCEPT !.layers = page.layers]

\* a slider is moved: updateOpSmooth is called with an index and a patch
UpdateOpSmooth ==
    /\ ~crashed
    /\ \E index \in 0..(Len(aOps) - 1) :
          LET smooth == updateOpSmooth(Page, Smooth, index, PatchTimes)
          IN  /\ frameRef' = smooth.frame
              /\ pending' = smooth.callback
    /\ UNCHANGED <<patternCanvas, crashed>>
    /\ UNCHANGED <<genVars, fmtVars, appVars, paneVars, drawVars>>

\* the browser runs the callback
FrameFires ==
    /\ CanCommit
    /\ frameRef # 0
    /\ frameRef' = 0
    /\ pending' = NoCallback
    /\ Rendered(frameCallback(Page, pending), FALSE, TRUE)

NextSmooth ==
    \/ UpdateOpSmooth
    \/ FrameFires
    \/ AddSheets
    \/ PushOp
    \/ RemoveOp

SpecSmooth == InitPage /\ [][NextSmooth]_vars

\* while a frame is asked for, a call of updateOpSmooth changes nothing
CallIgnored ==
    frameRef # 0 =>
        \A index \in 0..(Len(aOps) - 1) :
            updateOpSmooth(Page, Smooth, index, PatchTimes) = Smooth

\* the frame made one commit of the list its call had captured and cleared
\* frameRef
OneCommit ==
    /\ frameRef' = 0
    /\ Len(past') = Len(past) + 1
    /\ future' = <<>>
    /\ aOps' = pending.next

\* what was committed since the call is still there after the frame: the
\* stack is as it was, and so is every operation but the one patched
EditsKept ==
    /\ aLayers' = aLayers
    /\ Len(aOps') = Len(aOps)
    /\ \A i \in 1..Len(aOps) :
          i # pending.index + 1 => (i <= Len(aOps') /\ aOps'[i] = aOps[i])

\* C27 as stated: updateOpSmooth keeps at most one commit waiting.  A call
\* while a frame is asked for is ignored; a frame that fires makes exactly
\* one commit, clears frameRef, and commits the operation list captured by
\* the call that asked for it; and what other handlers committed between
\* that call and the frame is still in the stack and in the list afterwards.
Cex_C27_SmoothCommit ==
    /\ []CallIgnored
    /\ [][FrameFires => (OneCommit /\ EditsKept)]_vars

---------------------------------------------------------------------------
(* The renderers BilletPane and KnifePane: the effect that starts the frame
   loop, the loop and the cleanup (lines 151-297, 307-431) *)

\* the largest frame handle followed and the largest number of effect runs
MaxHandles == 5
MaxEffects == 3

\* width and height of canvas.getBoundingClientRect() in whole pixels
ClientRects == {<<0, 0>>, <<600, 420>>, <<1200, 420>>}

\* window.devicePixelRatio, 0 standing for a missing value
PixelRatios == {0, 1, 2}

\* onResize (lines 283-289, 417-423): the size given to the canvas
onResize(rect, ratio) ==
    LET dpr == IF ratio = 0 THEN 1 ELSE ratio
    IN  <<IF rect[1] * dpr > 1 THEN rect[1] * dpr ELSE 1,
          IF rect[2] * dpr > 1 THEN rect[2] * dpr ELSE 1>>

\* requestAnimationFrame(draw): the callback of effect run e joins the list
\* under a new handle
requestAnimationFrame(list, handle, e) == list \cup {[id |-> handle, by |-> e]}

\* cancelAnimationFrame that leaves the list as it is
cancelAnimationFrame_Ignored(list, handle) == list

\* cancelAnimationFrame(handle): the callback with that handle leaves the list
cancelAnimationFrame(list, handle) == {f \in list : f.id # handle}

\* what the effect and its callbacks read and write
Runtime ==
    [rafRef |-> rafRef, frames |-> frames, listeners |-> listeners,
     handles |-> handles, canvasSize |-> canvasSize]

SetRuntime(rt) ==
    /\ rafRef' = rt.rafRef
    /\ frames' = rt.frames
    /\ listeners' = rt.listeners
    /\ handles' = rt.handles
    /\ canvasSize' = rt.canvasSize

\* the effect without the guards of lines 152-155 and 308-311
effectSetup_Unguarded(rt, e, acquired, rect, ratio) ==
    [rafRef |-> rt.handles + 1,
     frames |-> requestAnimationFrame(rt.frames, rt.handles + 1, e),
     listeners |-> rt.listeners \cup {e},
     handles |-> rt.handles + 1,
     canvasSize |-> onResize(rect, ratio)]

\* the body of the effect (lines 151-291, 307-425) in its run number e:
\* without canvas or context it returns at once; otherwise it calls onResize,
\* requests the first frame and registers onResize
effectSetup(rt, e, acquired, rect, ratio) ==
    IF ~acquired THEN rt
    ELSE [rafRef |-> rt.handles + 1,
          frames |-> requestAnimationFrame(rt.frames, rt.handles + 1, e),
          listeners |-> rt.listeners \cup {e},
          handles |-> rt.handles + 1,
          canvasSize |-> onResize(rect, ratio)]

\* a cleanup that leaves onResize registered
effectCleanup_KeepsListener(rt, e) ==
    [rt EXCEPT !.frames = IF rt.rafRef # 0 THEN cancelAnimationFrame(@, rt.rafRef) ELSE @]

\* the function the effect returns (lines 292-295, 426-429) in its run number e
effectCleanup(rt, e) ==
    [rt EXCEPT !.frames = IF rt.rafRef # 0 THEN cancelAnimationFrame(@, rt.rafRef) ELSE @,
               !.listeners = @ \ {e}]

\* draw (lines 157-280, 313-414) run by the browser for the list entry f: it
\* paints and requests the next frame
draw(rt, f) ==
    [rt EXCEPT !.frames = requestAnimationFrame(@ \ {f}, rt.handles + 1, f.by),
               !.rafRef = rt.handles + 1,
               !.handles = rt.handles + 1]

\* the cleanup React runs for the effect run last: an effect that returned at
\* once has none
CleanedUp == IF hasCtx THEN effectCleanup(Runtime, effect) ELSE Runtime

\* a component mounted anew has its own canvas and rafRef
NewComponent(rt) == [rt EXCEPT !.rafRef = 0, !.canvasSize = DefaultCanvasSize]

CanStart == effect < MaxEffects /\ handles < MaxHandles

InitPane ==
    /\ GenIdle
    /\ FmtIdle
    /\ AppIdle
    /\ PageIdle
    /\ PaneIdle
    /\ DrawIdle

\* the page shows a renderer (lines 1255-1259)
Mount ==
    /\ pane = "none"
    /\ CanStart
    /\ \E view \in {"billet", "knife"}, acquired \in BOOLEAN,
          rect \in ClientRects, ratio \in PixelRatios :
          /\ pane' = view
          /\ hasCtx' = acquired
          /\ SetRuntime(effectSetup(NewComponent(Runtime), effect + 1, acquired, rect, ratio))
    /\ effect' = effect + 1
    /\ last' = "mount"
    /\ UNCHANGED <<aLayers, aOps, past, future, file, clipboard>>
    /\ UNCHANGED <<genVars, fmtVars, pageVars, drawVars>>

\* the property patternCanvas (or uOffset) has changed: React runs the
\* cleanup of the effect and then the effect again
Restart ==
    /\ pane # "none"
    /\ CanStart
    /\ \E rect \in ClientRects, ratio \in PixelRatios :
          SetRuntime(effectSetup(CleanedUp, effect + 1, hasCtx, rect, ratio))
    /\ effect' = effect + 1
    /\ last' = "restart"
    /\ UNCHANGED <<pane, hasCtx>>
    /\ UNCHANGED <<aLayers, aOps, past, future, file, clipboard>>
    /\ UNCHANGED <<genVars, fmtVars, pageVars, drawVars>>

\* setView (lines 1241, 1247): the renderer shown is unmounted and the other
\* one is mounted
SwitchView ==
    /\ pane # "none"
    /\ CanStart
    /\ \E acquired \in BOOLEAN, rect \in ClientRects, ratio \in PixelRatios :
          /\ hasCtx' = acquired
          /\ SetRuntime(effectSetup(NewComponent(CleanedUp), effect + 1, acquired, rect, ratio))
    /\ pane' = IF pane = "billet" THEN "knife" ELSE "billet"
    /\ effect' = effect + 1
    /\ last' = "setView"
    /\ UNCHANGED <<aLayers, aOps, past, future, file, clipboard>>
    /\ UNCHANGED <<genVars, fmtVars, pageVars, drawVars>>

\* the renderer is torn down: the page is left or unmounted
Unmount ==
    /\ pane # "none"
    /\ SetRuntime(CleanedUp)
    /\ pane' = "none"
    /\ hasCtx' = FALSE
    /\ last' = "unmount"
    /\ UNCHANGED effect
    /\ UNCHANGED <<aLayers, aOps, past, future, file, clipboard>>
    /\ UNCHANGED <<genVars, fmtVars, pageVars, drawVars>>

\* the browser runs a callback of its list
Frame ==
    /\ handles < MaxHandles
    /\ \E f \in frames : SetRuntime(draw(Runtime, f))
    /\ last' = "draw"
    /\ UNCHANGED <<pane, hasCtx, effect>>
    /\ UNCHANGED <<aLayers, aOps, past, future, file, clipboard>>
    /\ UNCHANGED <<genVars, fmtVars, pageVars, drawVars>>

\* the window is resized: the registered listeners run
Resize ==
    /\ listeners # {}
    /\ \E rect \in ClientRects, ratio \in PixelRatios :
          canvasSize' = onResize(rect, ratio)
    /\ last' = "onResize"
    /\ UNCHANGED <<pane, hasCtx, effect, rafRef, frames, listeners, handles>>
    /\ UNCHANGED <<aLayers, aOps, past, future, file, clipboard>>
    /\ UNCHANGED <<genVars, fmtVars, pageVars, drawVars>>

NextPane ==
    \/ Mount
    \/ Restart
    \/ SwitchView
    \/ Unmount
    \/ Frame
    \/ Resize

SpecPane == InitPane /\ [][NextPane]_vars

---------------------------------------------------------------------------
(* Properties of the renderers *)

\* C12: once the renderer is torn down no frame callback is pending and no
\* resize listener is registered, so draw cannot run or request a frame again;
\* every pending callback and every listener belongs to the effect run last
\* of the renderer that is mounted.
Thm_C12_TornDown ==
    /\ pane = "none" => (frames = {} /\ listeners = {})
    /\ \A f \in frames : f.by = effect
    /\ listeners \subseteq {effect}

\* a renderer that had drawn a frame (more handles than effect runs) was torn down
Wit_C12_TornDown ==
    /\ pane = "none"
    /\ last = "unmount"
    /\ rafRef # 0
    /\ handles > effect

\* C13: a mounted renderer that acquired its context has exactly one frame
\* callback pending, the one rafRef holds, and exactly one resize listener.
Thm_C13_OneLoop ==
    (pane # "none" /\ hasCtx) =>
        /\ Cardinality(frames) = 1
        /\ \A f \in frames : f.id = rafRef
        /\ Cardinality(listeners) = 1

\* the loop was restarted after a frame had been drawn
Wit_C13_OneLoop ==
    /\ pane # "none"
    /\ hasCtx
    /\ last = "restart"
    /\ handles > effect

\* C22: a mounted renderer whose effect did not get its canvas and context
\* has no frame callback in the browser's list, no resize listener on the
\* window, no handle in rafRef and a canvas that was never resized.
Thm_C22_NoSurface ==
    (pane # "none" /\ ~hasCtx) =>
        /\ frames = {}
        /\ listeners = {}
        /\ rafRef = 0
        /\ canvasSize = DefaultCanvasSize

\* a renderer without a surface that was shown after one that ran, and whose
\* effect has run again since
Wit_C22_NoSurface ==
    /\ pane # "none"
    /\ ~hasCtx
    /\ last = "restart"
    /\ handles > 0

---------------------------------------------------------------------------
(* Properties of the generator: coordinates, pixels and operations *)

\* the parameter ranges of the operation kinds: twist turns >= 0, ladder
\* spacing > 0 and depth >= 0, raindrops radius > 0 and spacing > 0, wfolds a
\* whole number >= 2, fold a whole number >= 0, stretch factor > 0
InRange(op) ==
    CASE op.kind = "twist" -> op.turns >= 0
      [] op.kind = "ladder" -> op.spacing > 0 /\ op.depth >= 0
      [] op.kind = "raindrops" -> op.radius > 0 /\ op.spacing > 0
      [] op.kind = "wfolds" -> op.folds >= 2 * Unit /\ op.folds % Unit = 0
      [] op.kind = "fold" -> op.times >= 0 /\ op.times % Unit = 0
      [] op.kind = "stretch" -> op.factor > 0
      [] OTHER -> TRUE

AllInRange(ops) == \A i \in 1..Len(ops) : InRange(ops[i])

\* vv of pixel p after line 97
WrappedAt(p) == WrappedV(gOps, p % gWidth, p \div gWidth, gWidth, gHeight, Len(gLayers))

\* a number in [0, 1)
InUnitInterval(q) == q[2] > 0 /\ 0 <= q[1] /\ q[1] < q[2]

Called == Generated /\ Len(gLayers) > 0

\* C15 as stated: for a non-empty stack and operations within their ranges,
\* at every pixel the wrapped vv lies in [0, 1) and 0 <= idx < stack length,
\* so that the call reads the stack in range and returns.
Cex_C15_WrapAndIndex ==
    (Called /\ AllInRange(gOps)) =>
        /\ \A p \in DOMAIN gPicked :
              /\ InUnitInterval(WrappedAt(p))
              /\ gPicked[p] \in 0..(Len(gLayers) - 1)
        /\ gCanvas # Thrown


\* the call returned an image of a non-empty stack
Returned == Called /\ gCanvas # Thrown

\* etch, in thousandths, clamped into [0, 1]
ClampedEtch(mat) ==
    LET e == MATERIALS[mat].etch
    IN  IF e < 0 THEN 0 ELSE IF e > Unit THEN Unit ELSE e

\* b is the whole number of 0..255 nearest to the clamped etch times 255
IsByteOf(b, mat) ==
    /\ b \in 0..255
    /\ 2 * (b * Unit - 255 * ClampedEtch(mat)) <= Unit
    /\ 2 * (255 * ClampedEtch(mat) - b * Unit) <= Unit

\* C16: for a non-empty stack the returned image has the requested width and
\* height, and every pixel of it is <<g, g, g, 255>> where g is the byte of
\* the clamped etch of the layer selected for that pixel.
Thm_C16_OpaqueGray ==
    Returned =>
        /\ gCanvas.width = gWidth
        /\ gCanvas.height = gHeight
        /\ Len(gCanvas.data) = 4 * gWidth * gHeight
        /\ \A x \in 0..(gWidth - 1), y \in 0..(gHeight - 1) :
              LET px == PixelAt(gCanvas, x, y)
                  mat == gLayers[gPicked[y * gWidth + x] + 1]
              IN  /\ px[1] = px[2]
                  /\ px[2] = px[3]
                  /\ px[4] = 255
                  /\ IsByteOf(px[1], mat)

\* an image of the largest size drawn, from a stack of two steels under a
\* ladder, that shows both of them: 15N20 as 217 and 1095 as 31
Wit_C16_OpaqueGray ==
    /\ Returned
    /\ gWidth = MaxWidth
    /\ gHeight = MaxHeight
    /\ gOps = <<OpLadder>>
    /\ \E x1, x2 \in 0..(gWidth - 1), y1, y2 \in 0..(gHeight - 1) :
          /\ PixelAt(gCanvas, x1, y1) = <<217, 217, 217, 255>>
          /\ PixelAt(gCanvas, x2, y2) = <<31, 31, 31, 255>>



\* the working coordinates of pixel p before the loop (lines 65-68)
StartAt(p) == <<QNorm[p % gWidth, gWidth], QNorm[p \div gWidth, gHeight]>>

\* the working coordinates of pixel p when the first k operations of gOps
\* have been applied, the k-th to what the first k - 1 left
RECURSIVE AfterFirst(_, _)
AfterFirst(k, p) ==
    IF k = 0 THEN StartAt(p)
    ELSE LET before == AfterFirst(k - 1, p)
         IN  [c \in {before} |-> ApplyOp(gOps[k], c, Len(gLayers))][before]

\* the raster of the same stack and size under other operations
RasterOf(ops) == generatePattern(gLayers, ops, gWidth, gHeight)

\* the two pairs of operations named as examples, and the first one swapped
StretchLadder == <<OpStretch, OpLadder>>
LadderStretch == <<OpLadder, OpStretch>>
FoldLadder == <<OpFold, OpLadder>>

\* for each of the two example pairs there are a stack and a size whose
\* raster changes when the two operations are swapped
OrderShows ==
    \A pair \in {StretchLadder, FoldLadder} :
        \E layers \in GenStacks, width \in 1..MaxWidth, height \in 1..MaxHeight :
            /\ Len(layers) > 0
            /\ generatePattern(layers, pair, width, height)
                   # generatePattern(layers, <<pair[2], pair[1]>>, width, height)

\* C17: with two or more operations, the layer of every pixel is the one at
\* the wrapped vv obtained by applying the operations one after the other in
\* list order, each to the coordinates left by the one before; and the order
\* is observable for a Stretch and a Ladder and for a Fold and a Ladder.
Thm_C17_ListOrder ==
    /\ OrderShows
    /\ (Returned /\ Len(gOps) >= 2) =>
           \A p \in DOMAIN gPicked :
               gPicked[p] = QFloor[QMul[Wrap01[AfterFirst(Len(gOps), p)[2]],
                                        QInt[Len(gLayers)]]]

\* the order shows: a raster of Stretch then Ladder that is not the raster of
\* Ladder then Stretch
Wit_C17_ListOrder ==
    /\ Returned
    /\ gOps = StretchLadder
    /\ gCanvas # RasterOf(LadderStretch)

\* the operations of a list that are not records of added sheets
WithoutSheets(ops) == SelectSeq(ops, LAMBDA op : op.kind # "addSheets")

\* C18: the raster of an operation list that holds AddSheets records is,
\* pixel for pixel, the raster of the same stack under the list with those
\* records removed.
Thm_C18_SheetsIgnored ==
    (Returned /\ WithoutSheets(gOps) # gOps) =>
        gCanvas = RasterOf(WithoutSheets(gOps))

\* records before and after a fold that does change the raster
Wit_C18_SheetsIgnored ==
    /\ Returned
    /\ gOps = <<OpAddSheets, OpFoldTwice, OpAddNickel>>
    /\ gCanvas = RasterOf(<<OpFoldTwice>>)
    /\ gCanvas # RasterOf(<<>>)

\* what a call with the same stack and size but other operations gives: an
\* image, or nothing when it throws
OutcomeOf(ops) ==
    IF generatePatternThrows(gLayers, ops, gWidth, gHeight) THEN Thrown
    ELSE RasterOf(ops)

IsFold(op) == op.kind = "fold"

\* Fold(a + b) for the two folds of a list Fold(a), Fold(b)
Merged(ops) == <<[kind |-> "fold", times |-> ops[1].times + ops[2].times]>>

\* a list of two folds, each of a whole number >= 0 of times
IsFoldPair(ops) ==
    /\ Len(ops) = 2
    /\ \A i \in 1..2 : IsFold(ops[i]) /\ ops[i].times >= 0 /\ ops[i].times % Unit = 0

\* C19 as stated: a single Fold(times) puts every pixel at the layer of
\* v * 2^max(0, floor(times)); a Fold with times < 1 gives the raster of no
\* operation; Fold(a), Fold(b) gives what Fold(a + b) gives.
Cex_C19_FoldPower ==
    Called =>
        /\ (Len(gOps) = 1 /\ IsFold(gOps[1]) /\ gOps[1].times < MaxExponent * Unit) =>
               \A p \in DOMAIN gPicked :
                   gPicked[p] =
                       QFloor[QMul[Wrap01[QMul[StartAt(p)[2],
                                               QInt[Pow2(QFloor[QOf[gOps[1].times]])]]],
                                   QInt[Len(gLayers)]]]
        /\ (Len(gOps) = 1 /\ IsFold(gOps[1]) /\ gOps[1].times < Unit) =>
               gCanvas = RasterOf(<<>>)
        /\ IsFoldPair(gOps) => gCanvas = OutcomeOf(Merged(gOps))

---------------------------------------------------------------------------
(* The blade renderer: the slices of one frame (KnifePane draw, lines 313-409) *)

\* const slices = 320 (line 354)
KnifeSlices == 320

\* the size of the raster the page synthesizes (line 887)
PageRasterWidth == 1024
PageRasterHeight == 512

\* a canvas of a given size; its pixels play no part in where it is sampled
CanvasOf(width, height) == [width |-> width, height |-> height, data |-> <<>>, none |-> FALSE]

\* line 367 without its remainder: the offset does not wrap
srcX_Unwrapped(uOffset, i, width) ==
    QFloor[QMul[QAdd[uOffset, QNorm[i, KnifeSlices]], QInt[width]]]

\* srcX of slice i (line 367): t0 = i / slices, and % keeps the sign of its
\* left operand; uOffset is a number, so uOffset ?? 0 is uOffset
srcX(uOffset, i, width) ==
    QFloor[QMul[QRem1[QAdd[uOffset, QNorm[i, KnifeSlices]]], QInt[width]]]

\* srcW (line 368)
srcW(width) == IF width \div KnifeSlices > 1 THEN width \div KnifeSlices ELSE 1

\* the source rectangles of the drawImage calls of one frame (lines 353-392),
\* slice 0 first; none without a raster
KnifeBlits(raster, uOffset) ==
    IF raster.none THEN <<>>
    ELSE [k \in 1..KnifeSlices |->
             [sx |-> srcX(uOffset, k - 1, raster.width), sy |-> 0,
              sw |-> srcW(raster.width), sh |-> raster.height]]

\* the rasters handed to the renderer: the page's, the ones of the smoke
\* tests, a single pixel, and none
KnifeRasters ==
    { NoCanvas, CanvasOf(PageRasterWidth, PageRasterHeight),
      CanvasOf(ScenarioWidth, ScenarioHeight),
      CanvasOf(EmptyScenarioWidth, EmptyScenarioHeight), CanvasOf(1, 1) }

KnifeOffsets == { QNorm[k, OffsetSteps] : k \in (-MaxOffset * OffsetSteps)..(MaxOffset * OffsetSteps) }

InitKnife ==
    /\ GenIdle
    /\ FmtIdle
    /\ AppIdle
    /\ PageIdle
    /\ PaneIdle
    /\ BilletIdle
    /\ kRaster \in KnifeRasters
    /\ kOffset \in KnifeOffsets
    /\ kDrawn = FALSE
    /\ kBlits = <<>>

\* one run of draw
DrawKnife ==
    /\ ~kDrawn
    /\ kDrawn' = TRUE
    /\ kBlits' = KnifeBlits(kRaster, kOffset)
    /\ UNCHANGED <<kRaster, kOffset>>
    /\ UNCHANGED <<genVars, fmtVars, appVars, pageVars, paneVars, billetVars>>

NextKnife == DrawKnife

SpecKnife == InitKnife /\ [][NextKnife]_vars

\* the strip of a blit lies inside the raster
StripInside(blit) == 0 <= blit.sx /\ blit.sx + blit.sw <= kRaster.width

\* a whole multiple of 1 / slices
OnSliceGrid(q) == (q[1] * KnifeSlices) % q[2] = 0

\* C20 as stated: for every offset and every slice, 0 <= srcX < rasterWidth
\* and the strip [srcX, srcX + srcW) lies inside the raster.
Cex_C20_SourceStrip ==
    kDrawn =>
        \A k \in DOMAIN kBlits :
            /\ 0 <= kBlits[k].sx
            /\ kBlits[k].sx < kRaster.width
            /\ StripInside(kBlits[k])

\* C20, amended: for an offset >= 0 every slice has 0 <= srcX < rasterWidth;
\* for any offset -rasterWidth <= srcX < rasterWidth and the strip ends at
\* most srcW - 1 columns past the right edge; for an offset >= 0 that is a
\* whole multiple of 1/320, 0 among them, the strip lies inside the raster.
Thm_C20_SourceStrip ==
    kDrawn =>
        /\ Len(kBlits) = IF kRaster.none THEN 0 ELSE KnifeSlices
        /\ \A k \in DOMAIN kBlits :
              LET blit == kBlits[k]
              IN  /\ blit.sx >= -kRaster.width
                  /\ blit.sx < kRaster.width
                  /\ blit.sw >= 1
                  /\ blit.sx + blit.sw <= kRaster.width + blit.sw - 1
                  /\ kOffset[1] >= 0 => blit.sx >= 0
                  /\ (kOffset[1] >= 0 /\ OnSliceGrid(kOffset)) => StripInside(blit)

\* a frame of the page's raster at an offset of one third: the strips are 3
\* columns wide, one starts at column 1022 and runs past the edge, and,
\* the offset wrapping, a later one starts at column 2
Wit_C20_SourceStrip ==
    /\ kDrawn
    /\ kRaster = CanvasOf(PageRasterWidth, PageRasterHeight)
    /\ kOffset = <<1, 3>>
    /\ \E k1, k2 \in DOMAIN kBlits :
          /\ kBlits[k1].sx = 1022
          /\ kBlits[k1].sw = 3
          /\ k1 < k2
          /\ kBlits[k2].sx = 2

---------------------------------------------------------------------------
(* The block renderer: the front face of one frame (BilletPane draw, lines 157-281) *)

\* the frames drawn in a behaviour
MaxFrames == 3

\* const slices = 120 (line 220)
BilletSlices == 120

\* the front face (lines 170-185): <<x0, x1, y0, y1>> for a canvas w x h
FrontFace(size) ==
    LET w == QInt[size[1]]
        h == QInt[size[2]]
        cx == QMul[w, <<1, 2>>]
        cy == QMul[h, <<3, 5>>]
        length == QMul[w, <<3, 5>>]
        thickness == QMul[h, <<3, 25>>]
    IN  <<QSub[cx, QDiv[length, QInt[2]]], QAdd[cx, QDiv[length, QInt[2]]],
          QSub[cy, QDiv[thickness, QInt[2]]], QAdd[cy, QDiv[thickness, QInt[2]]]>>

\* sy taken at the lower edge t1 of the slice instead of t0
BilletSy_LowerEdge(i, height) == QFloor[QMul[QNorm[i + 1, BilletSlices], QInt[height]]]

\* sy of slice i (line 224): t0 = i / slices
BilletSy(i, height) == QFloor[QMul[QNorm[i, BilletSlices], QInt[height]]]

\* sh (line 225)
BilletSh(height) == IF height \div BilletSlices > 1 THEN height \div BilletSlices ELSE 1

\* slice i of the loop of lines 221-264: the clip quad (lines 247-253) and the
\* arguments of drawImage (lines 255-265)
BilletBlit(raster, face, i) ==
    LET t0 == QNorm[i, BilletSlices]
        t1 == QNorm[i + 1, BilletSlices]
        x0 == face[1]
        x1 == face[2]
        y0 == face[3]
        y1 == face[4]
        xL == QAdd[x0, QMul[QSub[x0, x0], t0]]
        xR == QAdd[x1, QMul[QSub[x1, x1], t0]]
        y == QAdd[y0, QMul[QSub[y1, y0], t0]]
        nextXL == QAdd[x0, QMul[QSub[x0, x0], t1]]
        nextXR == QAdd[x1, QMul[QSub[x1, x1], t1]]
        nextY == QAdd[y0, QMul[QSub[y1, y0], t1]]
        dw == QMul[QAdd[QSub[xR, xL], QSub[nextXR, nextXL]], <<1, 2>>]
        dh == QSub[nextY, y]
    IN  [clip |-> [xL |-> xL, xR |-> xR, y |-> y,
                   nextXL |-> nextXL, nextXR |-> nextXR, nextY |-> nextY],
         sx |-> 0, sy |-> BilletSy(i, raster.height),
         sw |-> raster.width, sh |-> BilletSh(raster.height),
         dx |-> xL, dy |-> y, dw |-> dw, dh |-> QMax[QInt[1], dh]]

\* the drawImage calls of one frame, slice 0 first; none without a raster
BilletBlits(raster, size) ==
    IF raster.none THEN <<>>
    ELSE [k \in 1..BilletSlices |-> BilletBlit(raster, FrontFace(size), k - 1)]

\* the else branch of lines 266-269: the flat front face
BilletFill(raster, size) ==
    IF ~raster.none THEN NoFill
    ELSE LET face == FrontFace(size)
         IN  [none |-> FALSE, style |-> "#444", x |-> face[1], y |-> face[3],
              w |-> QSub[face[2], face[1]], h |-> QSub[face[4], face[3]]]

\* the rasters handed to the renderer: the page's, the ones of the smoke
\* tests, one a row taller than the slices are many, a single pixel, and none
BilletRasters ==
    { NoCanvas, CanvasOf(PageRasterWidth, PageRasterHeight),
      CanvasOf(ScenarioWidth, ScenarioHeight),
      CanvasOf(EmptyScenarioWidth, EmptyScenarioHeight),
      CanvasOf(1, BilletSlices + 1), CanvasOf(1, 1) }

\* the sizes onResize gives the canvas before the first frame
BilletSizes == { onResize(rect, ratio) : rect \in ClientRects, ratio \in PixelRatios }

InitBillet ==
    /\ GenIdle
    /\ FmtIdle
    /\ AppIdle
    /\ PageIdle
    /\ PaneIdle
    /\ KnifeIdle
    /\ bRaster \in BilletRasters
    /\ bSize \in BilletSizes
    /\ bAngle = 0
    /\ bBlits = <<>>
    /\ bFill = NoFill

\* one run of draw: the angle advances by 0.01 (line 167) and the front face
\* is painted; the background, the shadow, the top face and the outline are
\* painted too but are not kept
DrawBillet ==
    /\ bAngle < MaxFrames
    /\ bAngle' = bAngle + 1
    /\ bBlits' = BilletBlits(bRaster, bSize)
    /\ bFill' = BilletFill(bRaster, bSize)
    /\ UNCHANGED <<bRaster, bSize>>
    /\ UNCHANGED <<genVars, fmtVars, appVars, pageVars, paneVars, knifeVars>>

NextBillet == DrawBillet

SpecBillet == InitBillet /\ [][NextBillet]_vars

\* x0, x1, y0, y1 of the front face of a canvas w x h: the rectangle from
\* (w / 5, 27 h / 50) to (4 w / 5, 33 h / 50)
FaceOf(size) == <<QNorm[size[1], 5], QNorm[4 * size[1], 5],
                  QNorm[27 * size[2], 50], QNorm[33 * size[2], 50]>>

\* C21: a frame with a raster of height H makes 120 blits; blit i reads the
\* whole width from row floor(i * H / 120), max(1, floor(H / 120)) rows high,
\* inside rows [0, H); the clip quads span the face from left to right, the
\* first starts at its top, each next one starts where the one before ends,
\* the last ends at its bottom, and each blit's target covers its quad; the
\* face is not filled.  Without a raster there is no blit and the face is
\* filled with #444.
Thm_C21_FrontFaceSlices ==
    bAngle > 0 =>
        LET face == FaceOf(bSize)
            H == bRaster.height
        IN  IF bRaster.none
            THEN /\ bBlits = <<>>
                 /\ bFill = [none |-> FALSE, style |-> "#444", x |-> face[1], y |-> face[3],
                             w |-> QSub[face[2], face[1]], h |-> QSub[face[4], face[3]]]
            ELSE /\ bFill = NoFill
                 /\ Len(bBlits) = BilletSlices
                 /\ bBlits[1].clip.y = face[3]
                 /\ bBlits[BilletSlices].clip.nextY = face[4]
                 /\ \A k \in 1..(BilletSlices - 1) : bBlits[k].clip.nextY = bBlits[k + 1].clip.y
                 /\ \A k \in 1..BilletSlices :
                       LET blit == bBlits[k]
                       IN  /\ blit.sy = ((k - 1) * H) \div BilletSlices
                           /\ blit.sh = (IF H \div BilletSlices > 1 THEN H \div BilletSlices ELSE 1)
                           /\ blit.sy >= 0
                           /\ blit.sy + blit.sh <= H
                           /\ blit.sx = 0
                           /\ blit.sw = bRaster.width
                           /\ blit.clip.xL = face[1] /\ blit.clip.nextXL = face[1]
                           /\ blit.clip.xR = face[2] /\ blit.clip.nextXR = face[2]
                           /\ QLess[blit.clip.y, blit.clip.nextY]
                           /\ blit.dx = blit.clip.xL
                           /\ blit.dy = blit.clip.y
                           /\ blit.dw = QSub[blit.clip.xR, blit.clip.xL]
                           /\ ~QLess[QAdd[blit.dy, blit.dh], blit.clip.nextY]

\* a second frame of the page's raster on a 600 x 420 canvas: bands of 4
\* rows, the last from row 507, on quads 21/50 of a pixel high, each painted
\* through a target 1 pixel high
Wit_C21_FrontFaceSlices ==
    /\ bAngle = 2
    /\ bRaster = CanvasOf(PageRasterWidth, PageRasterHeight)
    /\ bSize = <<600, 420>>
    /\ bBlits[BilletSlices].sy = 507
    /\ bBlits[BilletSlices].sh = 4
    /\ QSub[bBlits[2].clip.nextY, bBlits[2].clip.y] = <<21, 50>>
    /\ bBlits[2].dh = <<1, 1>>



=============================================================================
